---- MODULE Spec2Model ----
(***************************************************************************)
(* EvolveRFC: the event-sourced discussion state, the bounded viewpoint    *)
(* pool, the router, the approval policy, the session snapshot and the     *)
(* compiled review workflow graph.                                         *)
(*                                                                         *)
(* Encoding of the Python values:                                          *)
(*   "FOR" / "AGAINST" / "ABSTAIN" stand for the three stance literals of  *)
(*   core/state.py:58; "None" stands for Python's None where the value is  *)
(*   otherwise a string; an Optional of another type is <<>> (None) or     *)
(*   <<v>>; a partial dict lists the keys it holds in its keys field.      *)
(***************************************************************************)
EXTENDS Integers, Sequences, FiniteSets, TLC

VARIABLES
    state,           \* the DiscussionState held by the running program / graph channels
    active,          \* the nodes the compiled graph schedules in the next superstep
    review_results,  \* parallel_review_node's local list of role results
    steps,           \* supersteps executed so far
    graph,           \* which builder compiled the graph
    graph_error,     \* exception that ended the run ("none" while running)
    next_id,         \* source of fresh viewpoint ids (uuid4 in the source)
    input,           \* arguments of a pure-function call
    output,          \* its result
    saved,           \* the dict produced by serialize_state
    restored         \* the DiscussionState produced by deserialize_state

vars == <<state, active, review_results, steps, graph, graph_error, next_id,
          input, output, saved, restored>>

----------------------------------------------------------------------------
(* Bounds of the model *)

NumRoles == 2          \* configured reviewer roles taking part in a round
MaxSteps == 7          \* supersteps of the compiled graph that are explored
MaxRoundsCfg == 2      \* largest max_rounds / round number explored
MaxVotes == 3          \* largest vote tally given to the pure functions
MaxAttempts == 5       \* proposal attempts in the pool specification
MaxBallots == 4        \* longest list of reviews given to the vote analyzers
MaxEvents == 3         \* longest event log given to add_event / get_latest_events
MaxToolCalls == 2      \* propose_viewpoint calls of one role in one review

(* Program constants *)

VIEWPOINT_POOL_LIMIT == 3
DEFAULT_MAX_ROUNDS == 10
reviewers_count == 4

----------------------------------------------------------------------------
(* Vocabulary *)

RoleNames == <<"architect", "security", "cost_control", "innovator">>
Roles == [i \in 1..NumRoles |-> RoleNames[i]]

Stances == {"FOR", "AGAINST", "ABSTAIN"}
None == "None"

ZeroVotes == [FOR |-> 0, AGAINST |-> 0, ABSTAIN |-> 0]

\* EventType enum: member name -> value
EventTypeValue(name) ==
    CASE name = "ROLE_REVIEW" -> "role_review"
      [] name = "VOTE" -> "vote"
      [] name = "HUMAN_INTERVENTION" -> "human"
      [] name = "HUMAN_DECISION" -> "human_decision"
      [] name = "CONSENSUS_REACHED" -> "consensus"
      [] name = "CLARIFICATION" -> "clarification"
      [] name = "ROUND_COMPLETE" -> "round_complete"

EventTypeNames == {"ROLE_REVIEW", "VOTE", "HUMAN_INTERVENTION", "HUMAN_DECISION",
                   "CONSENSUS_REACHED", "CLARIFICATION", "ROUND_COMPLETE"}

\* ViewpointStatus enum: member name -> value
ViewpointStatusValue(name) ==
    CASE name = "ACTIVE" -> "active"
      [] name = "RESOLVED" -> "resolved"
      [] name = "REJECTED" -> "rejected"

ViewpointStatusNames == {"ACTIVE", "RESOLVED", "REJECTED"}

----------------------------------------------------------------------------
(* core/state.py *)

DiscussionEvent(event_type, actor, content, timestamp, metadata, vote_result) ==
    [event_type |-> event_type, actor |-> actor, content |-> content,
     timestamp |-> timestamp, metadata |-> metadata, vote_result |-> vote_result,
     target_issue |-> None, human_action |-> None]

create_initial_state(rfc_content, max_rounds) ==
    [events |-> <<>>,
     rfc_content |-> rfc_content,
     modified_rfc_content |-> None,
     max_rounds |-> max_rounds,
     current_round |-> 1,
     current_focus |-> "",
     consensus_points |-> <<>>,
     open_issues |-> <<>>,
     viewpoint_pool |-> <<>>,
     resolved_viewpoints |-> <<>>,
     awaiting_human_input |-> FALSE,
     human_decision |-> <<>>,
     last_human_action |-> None,
     timeout_count |-> 0,
     workflow_status |-> "DISCUSSING",
     rfc_modification_applied |-> FALSE,
     rfc_final_vote_results |-> <<>>,
     rfc_final_vote_passed |-> <<>>]

\* variant of add_event that writes the default of rfc_modification_applied
add_event_mut(s, event) ==
    LET new_events == s.events \o <<event>> IN
    [rfc_content |-> s.rfc_content,
     modified_rfc_content |-> s.modified_rfc_content,
     max_rounds |-> s.max_rounds,
     current_round |-> s.current_round,
     current_focus |-> s.current_focus,
     consensus_points |-> s.consensus_points,
     open_issues |-> s.open_issues,
     viewpoint_pool |-> s.viewpoint_pool,
     resolved_viewpoints |-> s.resolved_viewpoints,
     awaiting_human_input |-> s.awaiting_human_input,
     human_decision |-> s.human_decision,
     last_human_action |-> s.last_human_action,
     timeout_count |-> s.timeout_count,
     workflow_status |-> s.workflow_status,
     events |-> new_events,
     rfc_modification_applied |-> FALSE,
     rfc_final_vote_results |-> s.rfc_final_vote_results,
     rfc_final_vote_passed |-> s.rfc_final_vote_passed]

\* core/state.py:133-155: a new DiscussionState built field by field
add_event(s, event) ==
    LET new_events == s.events \o <<event>> IN
    [rfc_content |-> s.rfc_content,
     modified_rfc_content |-> s.modified_rfc_content,
     max_rounds |-> s.max_rounds,
     current_round |-> s.current_round,
     current_focus |-> s.current_focus,
     consensus_points |-> s.consensus_points,
     open_issues |-> s.open_issues,
     viewpoint_pool |-> s.viewpoint_pool,
     resolved_viewpoints |-> s.resolved_viewpoints,
     awaiting_human_input |-> s.awaiting_human_input,
     human_decision |-> s.human_decision,
     last_human_action |-> s.last_human_action,
     timeout_count |-> s.timeout_count,
     workflow_status |-> s.workflow_status,
     events |-> new_events,
     rfc_modification_applied |-> s.rfc_modification_applied,
     rfc_final_vote_results |-> s.rfc_final_vote_results,
     rfc_final_vote_passed |-> s.rfc_final_vote_passed]

\* the argument of add_event after the call: state["events"] + [event] builds
\* a new list and no statement of add_event assigns into state
add_event_argument_after(s, event) == s

\* Python's events[-count:]; -0 is 0, so count = 0 selects the whole list
PySliceLast(seq, count) ==
    LET n == Len(seq)
        start == IF count = 0 THEN 0
                 ELSE IF count > 0 THEN (IF n - count < 0 THEN 0 ELSE n - count)
                 ELSE (IF -count > n THEN n ELSE -count)
    IN SubSeq(seq, start + 1, n)

get_latest_events(s, count) == PySliceLast(s.events, count)

can_add_viewpoint(s) == Len(s.viewpoint_pool) < VIEWPOINT_POOL_LIMIT

create_viewpoint(id, content, evidence, proposer, created_round) ==
    [id |-> id, content |-> content, evidence |-> evidence, proposer |-> proposer,
     status |-> "ACTIVE", vote_count |-> ZeroVotes, created_round |-> created_round,
     resolved_round |-> <<>>, solutions |-> <<>>, arguments |-> <<>>,
     proposed_solution |-> None]

\* core.state.add_viewpoint_to_pool: raises ValueError when the pool is full
add_viewpoint_to_pool(s, viewpoint) ==
    IF ~can_add_viewpoint(s)
    THEN [raised |-> "ValueError", state |-> s]
    ELSE [raised |-> "none",
          state |-> [s EXCEPT !.viewpoint_pool = s.viewpoint_pool \o <<viewpoint>>]]

resolve_viewpoint(viewpoint, resolved_round) ==
    [id |-> viewpoint.id, content |-> viewpoint.content, evidence |-> viewpoint.evidence,
     proposer |-> viewpoint.proposer, status |-> "RESOLVED",
     vote_count |-> viewpoint.vote_count, created_round |-> viewpoint.created_round,
     resolved_round |-> <<resolved_round>>, solutions |-> viewpoint.solutions,
     arguments |-> viewpoint.arguments, proposed_solution |-> None]

\* variant of check_viewpoint_resolved that accepts exactly half of the reviewers
check_viewpoint_resolved_mut(viewpoint, total_reviewers) ==
    IF viewpoint.status # "ACTIVE"
    THEN TRUE
    ELSE LET yes_votes == viewpoint.vote_count.FOR
             no_votes == viewpoint.vote_count.AGAINST
         IN yes_votes > no_votes /\ yes_votes >= total_reviewers \div 2

check_viewpoint_resolved(viewpoint, total_reviewers) ==
    IF viewpoint.status # "ACTIVE"
    THEN TRUE
    ELSE LET yes_votes == viewpoint.vote_count.FOR
             no_votes == viewpoint.vote_count.AGAINST
         IN yes_votes > no_votes /\ yes_votes > total_reviewers \div 2

\* core/state.py:219-246; vote_result is a dict read with get
vote_viewpoint(viewpoint, vote_result) ==
    LET get(key, default) == IF key \in vote_result.keys THEN vote_result[key] ELSE default
        vote == get("vote", "ABSTAIN")
        updated_count == IF vote \in DOMAIN viewpoint.vote_count
                         THEN [viewpoint.vote_count EXCEPT ![vote] = @ + 1]
                         ELSE viewpoint.vote_count
        new_arguments == Append(viewpoint.arguments,
            [actor |-> get("actor", "unknown"),
             content |-> get("content", ""),
             stance |-> vote,
             round |-> get("round", viewpoint.created_round)])
    IN [id |-> viewpoint.id, content |-> viewpoint.content, evidence |-> viewpoint.evidence,
        proposer |-> viewpoint.proposer, status |-> viewpoint.status,
        vote_count |-> updated_count, created_round |-> viewpoint.created_round,
        resolved_round |-> viewpoint.resolved_round, solutions |-> viewpoint.solutions,
        arguments |-> new_arguments, proposed_solution |-> None]

\* core/state.py:283-291: the loop over the pool
RECURSIVE SweepPool(_, _, _, _, _)
SweepPool(pool, k, active_viewpoints, resolved_viewpoints, current_round) ==
    IF k > Len(pool)
    THEN [active_viewpoints |-> active_viewpoints, resolved_viewpoints |-> resolved_viewpoints]
    ELSE IF check_viewpoint_resolved(pool[k], reviewers_count)
    THEN SweepPool(pool, k + 1, active_viewpoints,
                   Append(resolved_viewpoints, resolve_viewpoint(pool[k], current_round)),
                   current_round)
    ELSE SweepPool(pool, k + 1, Append(active_viewpoints, pool[k]), resolved_viewpoints,
                   current_round)

\* variant of resolve_active_viewpoints that starts from an empty resolved list
resolve_active_viewpoints_mut(s, current_round) ==
    LET swept == SweepPool(s.viewpoint_pool, 1, <<>>, s.resolved_viewpoints, current_round) IN
    [rfc_content |-> s.rfc_content,
     modified_rfc_content |-> s.modified_rfc_content,
     max_rounds |-> s.max_rounds,
     current_round |-> s.current_round,
     current_focus |-> s.current_focus,
     consensus_points |-> s.consensus_points,
     open_issues |-> s.open_issues,
     viewpoint_pool |-> swept.active_viewpoints,
     resolved_viewpoints |-> SubSeq(swept.resolved_viewpoints, Len(s.resolved_viewpoints) + 1,
                                    Len(swept.resolved_viewpoints)),
     awaiting_human_input |-> s.awaiting_human_input,
     human_decision |-> s.human_decision,
     last_human_action |-> s.last_human_action,
     timeout_count |-> s.timeout_count,
     workflow_status |-> s.workflow_status,
     events |-> s.events,
     rfc_modification_applied |-> s.rfc_modification_applied,
     rfc_final_vote_results |-> s.rfc_final_vote_results,
     rfc_final_vote_passed |-> s.rfc_final_vote_passed]

\* core/state.py:281-312
resolve_active_viewpoints(s, current_round) ==
    LET swept == SweepPool(s.viewpoint_pool, 1, <<>>, s.resolved_viewpoints, current_round) IN
    [rfc_content |-> s.rfc_content,
     modified_rfc_content |-> s.modified_rfc_content,
     max_rounds |-> s.max_rounds,
     current_round |-> s.current_round,
     current_focus |-> s.current_focus,
     consensus_points |-> s.consensus_points,
     open_issues |-> s.open_issues,
     viewpoint_pool |-> swept.active_viewpoints,
     resolved_viewpoints |-> swept.resolved_viewpoints,
     awaiting_human_input |-> s.awaiting_human_input,
     human_decision |-> s.human_decision,
     last_human_action |-> s.last_human_action,
     timeout_count |-> s.timeout_count,
     workflow_status |-> s.workflow_status,
     events |-> s.events,
     rfc_modification_applied |-> s.rfc_modification_applied,
     rfc_final_vote_results |-> s.rfc_final_vote_results,
     rfc_final_vote_passed |-> s.rfc_final_vote_passed]

----------------------------------------------------------------------------
(* The review capability called by parallel_review_node for one role.      *)
(* Its result is the dict the node stores in review_results: a completed   *)
(* review (stance parsed from the text, or None when the parser finds      *)
(* none; the candidate viewpoints found; the respond_to_viewpoint tool     *)
(* calls made) or, when the call raises, the node's own failure record.    *)
(* Both outcomes are kept for every call.  In this source tree the node    *)
(* passes stop_check_callback (nodes.py:198, 214), a keyword neither       *)
(* run_review_with_tools nor run_review_with_viewpoint_pool declares       *)
(* (debate.py:535-543, 670-679), so as the files stand each call ends in   *)
(* the failure record; the node's handling of completed reviews (lines     *)
(* 245-336) is modelled for the results a review function returns.         *)

CandA == [content |-> "API design is too complex", evidence |-> <<"too many parameters">>]
CandB == [content |-> "no rollback plan", evidence |-> <<"migration is one-way">>]
CandidateLists == {<<>>, <<CandA>>, <<CandB, CandA>>}

PoolIds(pool) == {pool[i].id : i \in 1..Len(pool)}

ToolCallLists(pool) ==
    LET RespondCalls ==
            {[tool |-> "respond_to_viewpoint",
              arguments |-> [viewpoint_id |-> id, stance |-> st, response |-> "response"]] :
                id \in PoolIds(pool), st \in Stances}
    IN {<<>>} \cup {<<tc>> : tc \in RespondCalls}

\* variant of the failure record that keeps no abstention
FailedReview_mut(role) ==
    [role |-> role, content |-> "review failed", vote |-> "FOR",
     new_viewpoints |-> <<>>, tool_calls |-> <<>>]

FailedReview(role) ==
    [role |-> role, content |-> "review failed", vote |-> "ABSTAIN",
     new_viewpoints |-> <<>>, tool_calls |-> <<>>]

ReviewOutcomes(role, pool) ==
    {FailedReview(role)} \cup
    {[role |-> role, content |-> "review", vote |-> v, new_viewpoints |-> nv, tool_calls |-> tc] :
        v \in Stances \cup {None}, nv \in CandidateLists, tc \in ToolCallLists(pool)}

----------------------------------------------------------------------------
(* workflow/nodes.py *)

\* lines 245-258: one ROLE_REVIEW event per result
ReviewEvents(results, current_round, now) ==
    [i \in 1..Len(results) |->
        DiscussionEvent("ROLE_REVIEW", results[i].role, results[i].content, now,
                        [round |-> current_round], results[i].vote)]

\* variant of lines 260-289 that admits every candidate of a role
RECURSIVE CollectNewViewpoints_mut(_, _, _, _, _, _, _)
CollectNewViewpoints_mut(results, i, new_viewpoints, counted, current_pool_size, current_round, id0) ==
    IF i > Len(results) THEN new_viewpoints
    ELSE LET result == results[i]
             vps == [j \in 1..Len(result.new_viewpoints) |->
                        create_viewpoint(id0 + Len(new_viewpoints) + j - 1,
                                         result.new_viewpoints[j].content,
                                         result.new_viewpoints[j].evidence,
                                         result.role, current_round)]
         IN IF current_pool_size + Len(new_viewpoints) >= VIEWPOINT_POOL_LIMIT
            THEN new_viewpoints
            ELSE CollectNewViewpoints_mut(results, i + 1, new_viewpoints \o vps,
                                          counted \cup {result.role},
                                          current_pool_size, current_round, id0)

\* variant of lines 260-289 that walks the results from the last role to the first
RECURSIVE CollectNewViewpoints_rev(_, _, _, _, _, _, _)
CollectNewViewpoints_rev(results, i, new_viewpoints, counted, current_pool_size, current_round, id0) ==
    IF i > Len(results) THEN new_viewpoints
    ELSE LET result == results[Len(results) + 1 - i] IN
         IF result.role \in counted
         THEN CollectNewViewpoints_rev(results, i + 1, new_viewpoints, counted,
                                       current_pool_size, current_round, id0)
         ELSE IF current_pool_size + Len(new_viewpoints) >= VIEWPOINT_POOL_LIMIT
         THEN new_viewpoints
         ELSE IF result.new_viewpoints = <<>>
         THEN CollectNewViewpoints_rev(results, i + 1, new_viewpoints, counted,
                                       current_pool_size, current_round, id0)
         ELSE LET vp_data == result.new_viewpoints[1]
                  vp == create_viewpoint(id0 + Len(new_viewpoints), vp_data.content,
                                         vp_data.evidence, result.role, current_round)
              IN CollectNewViewpoints_rev(results, i + 1, Append(new_viewpoints, vp),
                                          counted \cup {result.role},
                                          current_pool_size, current_round, id0)

\* lines 260-289: at most one new viewpoint per role, never beyond the pool limit
RECURSIVE CollectNewViewpoints(_, _, _, _, _, _, _)
CollectNewViewpoints(results, i, new_viewpoints, counted, current_pool_size, current_round, id0) ==
    IF i > Len(results) THEN new_viewpoints
    ELSE LET result == results[i] IN
         IF result.role \in counted
         THEN CollectNewViewpoints(results, i + 1, new_viewpoints, counted,
                                   current_pool_size, current_round, id0)
         ELSE IF current_pool_size + Len(new_viewpoints) >= VIEWPOINT_POOL_LIMIT
         THEN new_viewpoints
         ELSE IF result.new_viewpoints = <<>>
         THEN CollectNewViewpoints(results, i + 1, new_viewpoints, counted,
                                   current_pool_size, current_round, id0)
         ELSE LET vp_data == result.new_viewpoints[1]
                  vp == create_viewpoint(id0 + Len(new_viewpoints), vp_data.content,
                                         vp_data.evidence, result.role, current_round)
              IN CollectNewViewpoints(results, i + 1, Append(new_viewpoints, vp),
                                      counted \cup {result.role},
                                      current_pool_size, current_round, id0)

\* variant of ApplyResponse that counts a stance outside the three as an abstention
ApplyResponse_abstain(pool, role, args, current_round) ==
    LET hits == {i \in 1..Len(pool) : pool[i].id = args.viewpoint_id} IN
    IF hits = {} THEN pool
    ELSE LET i == CHOOSE k \in hits : \A j \in hits : k <= j
             vp == pool[i]
             new_arguments == Append(vp.arguments,
                 [actor |-> role, content |-> args.response,
                  stance |-> args.stance, round |-> current_round])
             new_vote_count ==
                 IF args.stance \in DOMAIN vp.vote_count
                 THEN [vp.vote_count EXCEPT ![args.stance] = @ + 1]
                 ELSE [vp.vote_count EXCEPT !["ABSTAIN"] = @ + 1]
         IN [pool EXCEPT ![i] =
                [id |-> vp.id, content |-> vp.content, evidence |-> vp.evidence,
                 proposer |-> vp.proposer, status |-> vp.status,
                 vote_count |-> new_vote_count, created_round |-> vp.created_round,
                 resolved_round |-> vp.resolved_round, solutions |-> vp.solutions,
                 arguments |-> new_arguments, proposed_solution |-> None]]

\* lines 305-336: record one response on the first pool entry with that id
ApplyResponse(pool, role, args, current_round) ==
    LET hits == {i \in 1..Len(pool) : pool[i].id = args.viewpoint_id} IN
    IF hits = {} THEN pool
    ELSE LET i == CHOOSE k \in hits : \A j \in hits : k <= j
             vp == pool[i]
             new_arguments == Append(vp.arguments,
                 [actor |-> role, content |-> args.response,
                  stance |-> args.stance, round |-> current_round])
             new_vote_count ==
                 IF args.stance \in DOMAIN vp.vote_count
                 THEN [vp.vote_count EXCEPT ![args.stance] = @ + 1]
                 ELSE vp.vote_count
         IN [pool EXCEPT ![i] =
                [id |-> vp.id, content |-> vp.content, evidence |-> vp.evidence,
                 proposer |-> vp.proposer, status |-> vp.status,
                 vote_count |-> new_vote_count, created_round |-> vp.created_round,
                 resolved_round |-> vp.resolved_round, solutions |-> vp.solutions,
                 arguments |-> new_arguments, proposed_solution |-> None]]

RECURSIVE ApplyToolCalls(_, _, _, _, _)
ApplyToolCalls(pool, role, tool_calls, k, current_round) ==
    IF k > Len(tool_calls) THEN pool
    ELSE LET tc == tool_calls[k]
             next == IF tc.tool = "respond_to_viewpoint"
                     THEN ApplyResponse(pool, role, tc.arguments, current_round)
                     ELSE pool
         IN ApplyToolCalls(next, role, tool_calls, k + 1, current_round)

\* lines 291-336: all results' responses, in result order
RECURSIVE SyncResponses(_, _, _, _)
SyncResponses(pool, results, i, current_round) ==
    IF i > Len(results) THEN pool
    ELSE SyncResponses(
            ApplyToolCalls(pool, results[i].role, results[i].tool_calls, 1, current_round),
            results, i + 1, current_round)

\* lines 245-360: the state the node returns once every role has been reviewed
parallel_review_node(s, results, id0, now) ==
    LET current_round == s.current_round
        new_events == ReviewEvents(results, current_round, now)
        new_viewpoints == CollectNewViewpoints(results, 1, <<>>, {},
                              Len(s.viewpoint_pool), current_round, id0)
        updated_pool == SyncResponses(s.viewpoint_pool, results, 1, current_round)
    IN [s EXCEPT !.events = s.events \o new_events,
                 !.viewpoint_pool = updated_pool \o new_viewpoints]

\* variant of nodes.add_viewpoint_to_pool with an off-by-one capacity test
nodes_add_viewpoint_to_pool_mut(s, viewpoint) ==
    IF Len(s.viewpoint_pool) > VIEWPOINT_POOL_LIMIT
    THEN s
    ELSE [s EXCEPT !.viewpoint_pool = s.viewpoint_pool \o <<viewpoint>>]

\* nodes.add_viewpoint_to_pool: returns the state unchanged when the pool is full
nodes_add_viewpoint_to_pool(s, viewpoint) ==
    IF Len(s.viewpoint_pool) >= VIEWPOINT_POOL_LIMIT
    THEN s
    ELSE [s EXCEPT !.viewpoint_pool = s.viewpoint_pool \o <<viewpoint>>]

CountVotes(votes, v) == Cardinality({i \in 1..Len(votes) : votes[i] = v})

\* an Optional[str] value is truthy unless it is None or ""
Truthy(v) == v # None /\ v # ""

\* variant of vote_analyzer_node that tallies the reviews of every round
vote_analyzer_node_mut(s, now) ==
    LET current_round == s.current_round
        IsReview(e) == /\ e.event_type = "ROLE_REVIEW"
                       /\ Truthy(e.vote_result)
        review_events == SelectSeq(s.events, IsReview)
        vote_results == [i \in 1..Len(review_events) |-> review_events[i].vote_result]
        yes_votes == CountVotes(vote_results, "FOR")
        no_votes == CountVotes(vote_results, "AGAINST")
        abstain_votes == CountVotes(vote_results, "ABSTAIN")
        total_votes == Len(vote_results)
        needs_human == IF total_votes > 0 THEN 10 * no_votes > 3 * total_votes ELSE FALSE
        stats_event == DiscussionEvent("ROUND_COMPLETE", "system", "vote statistics", now,
            [round |-> current_round,
             vote_summary |-> [FOR |-> yes_votes, AGAINST |-> no_votes, ABSTAIN |-> abstain_votes],
             needs_human_intervention |-> needs_human], None)
        s1 == add_event(s, stats_event)
    IN IF review_events = <<>> THEN s
       ELSE IF needs_human
            THEN [s1 EXCEPT !.awaiting_human_input = TRUE,
                            !.workflow_status = "AWAITING_HUMAN"]
            ELSE s1

vote_analyzer_node(s, now) ==
    LET current_round == s.current_round
        IsReview(e) == /\ e.event_type = "ROLE_REVIEW"
                       /\ e.metadata.round = current_round
                       /\ Truthy(e.vote_result)
        review_events == SelectSeq(s.events, IsReview)
        vote_results == [i \in 1..Len(review_events) |-> review_events[i].vote_result]
        yes_votes == CountVotes(vote_results, "FOR")
        no_votes == CountVotes(vote_results, "AGAINST")
        abstain_votes == CountVotes(vote_results, "ABSTAIN")
        total_votes == Len(vote_results)
        \* (no_votes / total_votes) > 0.3
        needs_human == IF total_votes > 0 THEN 10 * no_votes > 3 * total_votes ELSE FALSE
        stats_event == DiscussionEvent("ROUND_COMPLETE", "system", "vote statistics", now,
            [round |-> current_round,
             vote_summary |-> [FOR |-> yes_votes, AGAINST |-> no_votes, ABSTAIN |-> abstain_votes],
             needs_human_intervention |-> needs_human], None)
        s1 == add_event(s, stats_event)
    IN IF review_events = <<>> THEN s
       ELSE IF needs_human
            THEN [s1 EXCEPT !.awaiting_human_input = TRUE,
                            !.workflow_status = "AWAITING_HUMAN"]
            ELSE s1

viewpoint_pool_manager_node(s, now) ==
    LET current_round == s.current_round
        s1 == resolve_active_viewpoints(s, current_round)
        pool_status_event == DiscussionEvent("ROUND_COMPLETE", "system", "pool status", now,
            [round |-> current_round,
             viewpoint_pool_status |-> [active |-> Len(s1.viewpoint_pool),
                                        resolved |-> Len(s1.resolved_viewpoints),
                                        limit |-> VIEWPOINT_POOL_LIMIT]], None)
    IN add_event(s1, pool_status_event)

human_oversight_node(s) == s

\* variant of clerk_summary_node that skips a round number
clerk_summary_node_mut(s, ok, now) ==
    LET current_round == s.current_round IN
    IF ok
    THEN [add_event(s, DiscussionEvent("CLARIFICATION", "clerk", "summary", now,
                                       [round |-> current_round], None))
            EXCEPT !.current_round = current_round + 2]
    ELSE add_event(s, DiscussionEvent("CLARIFICATION", "clerk", "summary failed", now,
                                      [round |-> current_round, error |-> TRUE], None))

\* variant of clerk_summary_node that closes the round although the call failed
clerk_summary_node_adv(s, ok, now) ==
    LET current_round == s.current_round IN
    IF ok
    THEN [add_event(s, DiscussionEvent("CLARIFICATION", "clerk", "summary", now,
                                       [round |-> current_round], None))
            EXCEPT !.current_round = current_round + 1]
    ELSE [add_event(s, DiscussionEvent("CLARIFICATION", "clerk", "summary failed", now,
                                       [round |-> current_round, error |-> TRUE], None))
            EXCEPT !.current_round = current_round + 1]

\* ok: whether the summarizer call returned
clerk_summary_node(s, ok, now) ==
    LET current_round == s.current_round IN
    IF ok
    THEN [add_event(s, DiscussionEvent("CLARIFICATION", "clerk", "summary", now,
                                       [round |-> current_round], None))
            EXCEPT !.current_round = current_round + 1]
    ELSE add_event(s, DiscussionEvent("CLARIFICATION", "clerk", "summary failed", now,
                                      [round |-> current_round, error |-> TRUE], None))

final_report_node(s) == [s EXCEPT !.workflow_status = "COMPLETED"]

init_node(s) == s

----------------------------------------------------------------------------
(* core/router.py.  A state handed to the router is a dict: keys lists the  *)
(* keys it has (the unit tests pass partial dicts), the other fields their  *)
(* values.  human_decision is <<>> for None and <<[action |-> a]>> for a    *)
(* dict whose "action" entry is a (None when the dict has no such entry).   *)

RouterStateKeys == {"human_decision", "awaiting_human_input", "current_round", "open_issues"}

\* dict.get(key, default)
Get(s, key, default) == IF key \in s.keys THEN s[key] ELSE default

WorkflowRouter(max_rounds) ==
    [max_rounds |-> max_rounds, deadlock_opposition_ratio_x10 |-> 3]

default_router == WorkflowRouter(DEFAULT_MAX_ROUNDS)

\* variant of _build_rules in which the emergency stop is tried last
_build_rules_mut ==
    << [name |-> "emergency_stop", priority |-> 6, target |-> "EMERGENCY_STOP"],
       [name |-> "human_intervention", priority |-> 2, target |-> "HUMAN_INTERVENTION"],
       [name |-> "max_rounds_reached", priority |-> 3, target |-> "FINAL_REPORT"],
       [name |-> "consensus_reached", priority |-> 4, target |-> "FINAL_REPORT"],
       [name |-> "round_complete", priority |-> 5, target |-> "ROUND_SUMMARY"] >>

_build_rules ==
    << [name |-> "emergency_stop", priority |-> 1, target |-> "EMERGENCY_STOP"],
       [name |-> "human_intervention", priority |-> 2, target |-> "HUMAN_INTERVENTION"],
       [name |-> "max_rounds_reached", priority |-> 3, target |-> "FINAL_REPORT"],
       [name |-> "consensus_reached", priority |-> 4, target |-> "FINAL_REPORT"],
       [name |-> "round_complete", priority |-> 5, target |-> "ROUND_SUMMARY"] >>

\* the rule's lambda applied to s: "True", "False", or the exception it raises
RuleCondition(self, name, s) ==
    CASE name = "emergency_stop" ->
            \* s.get("human_decision", {}).get("action") == TERMINATE
            LET hd == Get(s, "human_decision", <<[action |-> None]>>) IN
            IF hd = <<>> THEN "AttributeError"
            ELSE IF hd[1].action = "TERMINATE" THEN "True" ELSE "False"
      [] name = "human_intervention" ->
            IF Get(s, "awaiting_human_input", FALSE) THEN "True" ELSE "False"
      [] name = "max_rounds_reached" ->
            IF Get(s, "current_round", 0) >= self.max_rounds THEN "True" ELSE "False"
      [] name = "consensus_reached" ->
            IF Len(Get(s, "open_issues", <<>>)) = 0 THEN "True" ELSE "False"
      [] name = "round_complete" -> "True"

\* sorted(rules, key=priority): stable, ascending
RECURSIVE SortedByPriority(_)
SortedByPriority(rules) ==
    IF rules = <<>> THEN <<>>
    ELSE LET i == CHOOSE k \in 1..Len(rules) :
                    \A j \in 1..Len(rules) :
                        \/ rules[k].priority < rules[j].priority
                        \/ (rules[k].priority = rules[j].priority /\ k <= j)
             rest == [j \in 1..(Len(rules) - 1) |-> IF j < i THEN rules[j] ELSE rules[j + 1]]
         IN <<rules[i]>> \o SortedByPriority(rest)

RECURSIVE FirstMatch(_, _, _, _)
FirstMatch(self, sorted_rules, k, s) ==
    IF k > Len(sorted_rules) THEN "CONTINUE"
    ELSE LET c == RuleCondition(self, sorted_rules[k].name, s) IN
         IF c = "True" THEN sorted_rules[k].target
         ELSE IF c = "False" THEN FirstMatch(self, sorted_rules, k + 1, s)
         ELSE c

\* WorkflowRouter.route: a RouteTarget name, or the exception raised
route(self, s) == FirstMatch(self, SortedByPriority(_build_rules), 1, s)

\* workflow/edges.py:11-23: a node name, END, or the exception route raised
route_after_vote(s) ==
    LET target == route(default_router, s) IN
    CASE target = "HUMAN_INTERVENTION" -> "human_oversight"
      [] target = "ROUND_SUMMARY" -> "clerk_summary"
      [] target = "FINAL_REPORT" -> "final_report"
      [] target = "EMERGENCY_STOP" -> "__end__"
      [] target = "AttributeError" -> "AttributeError"
      [] OTHER -> "__end__"

\* workflow/edges.py:40-47
route_after_summary(s) ==
    LET target == route(default_router, s) IN
    IF target = "AttributeError" THEN "AttributeError"
    ELSE IF target = "FINAL_REPORT" THEN "final_report"
    ELSE "parallel_review"

\* WorkflowRouter.should_human_intervene (core/router.py:89-105)
should_human_intervene(self, s) ==
    LET IsVote(e) == e.event_type = "VOTE"
        votes == SelectSeq(s.events, IsVote)
        HasResult(e) == Truthy(e.vote_result)
        voted == SelectSeq(votes, HasResult)
        vote_results == [i \in 1..Len(voted) |-> voted[i].vote_result]
        opposition_count == CountVotes(vote_results, "AGAINST")
        total_votes == Len(vote_results)
    IN IF votes = <<>> THEN FALSE
       ELSE IF vote_results = <<>> THEN FALSE
       ELSE 10 * opposition_count > self.deadlock_opposition_ratio_x10 * total_votes

----------------------------------------------------------------------------
(* shared/debate.py *)

\* analyze_votes: results are the dicts of one round's reviews
analyze_votes(results) ==
    LET voted == SelectSeq(results, LAMBDA r : Truthy(r.vote))
        votes == [i \in 1..Len(voted) |-> voted[i].vote]
        yes_count == CountVotes(votes, "FOR")
        no_count == CountVotes(votes, "AGAINST")
        abstain_count == CountVotes(votes, "ABSTAIN")
        total == Len(votes)
    IN IF votes = <<>>
       THEN [yes |-> 0, no |-> 0, abstain |-> 0, needs_human |-> FALSE]
       ELSE [yes |-> yes_count, no |-> no_count, abstain |-> abstain_count,
             \* (no_count / total) > 0.3
             needs_human |-> 10 * no_count > 3 * total]

\* variant of check_approval that lets a tie pass
check_approval_mut_tie(vote_result, max_rounds, current_round, yes_votes_needed, no_votes_limit, require_yes_over_no) ==
    LET yes == vote_result.yes
        no == vote_result.no
        passed == [approved |-> TRUE, finished |-> TRUE, reason |-> "approved"]
    IN IF yes >= yes_votes_needed /\ require_yes_over_no /\ yes >= no THEN passed
       ELSE IF yes >= yes_votes_needed /\ ~require_yes_over_no THEN passed
       ELSE IF no >= no_votes_limit
            THEN [approved |-> FALSE, finished |-> TRUE, reason |-> "too many against"]
       ELSE IF current_round >= max_rounds
            THEN [approved |-> FALSE, finished |-> TRUE, reason |-> "max rounds reached"]
       ELSE [approved |-> FALSE, finished |-> FALSE, reason |-> "continue debate"]

\* variant of check_approval that eliminates only above the limit
check_approval_mut_limit(vote_result, max_rounds, current_round, yes_votes_needed, no_votes_limit, require_yes_over_no) ==
    LET yes == vote_result.yes
        no == vote_result.no
        passed == [approved |-> TRUE, finished |-> TRUE, reason |-> "approved"]
    IN IF yes >= yes_votes_needed /\ require_yes_over_no /\ yes > no THEN passed
       ELSE IF yes >= yes_votes_needed /\ ~require_yes_over_no THEN passed
       ELSE IF no > no_votes_limit
            THEN [approved |-> FALSE, finished |-> TRUE, reason |-> "too many against"]
       ELSE IF current_round >= max_rounds
            THEN [approved |-> FALSE, finished |-> TRUE, reason |-> "max rounds reached"]
       ELSE [approved |-> FALSE, finished |-> FALSE, reason |-> "continue debate"]

\* variant of check_approval that finishes only after the last round
check_approval_mut_round(vote_result, max_rounds, current_round, yes_votes_needed, no_votes_limit, require_yes_over_no) ==
    LET yes == vote_result.yes
        no == vote_result.no
        passed == [approved |-> TRUE, finished |-> TRUE, reason |-> "approved"]
    IN IF yes >= yes_votes_needed /\ require_yes_over_no /\ yes > no THEN passed
       ELSE IF yes >= yes_votes_needed /\ ~require_yes_over_no THEN passed
       ELSE IF no >= no_votes_limit
            THEN [approved |-> FALSE, finished |-> TRUE, reason |-> "too many against"]
       ELSE IF current_round > max_rounds
            THEN [approved |-> FALSE, finished |-> TRUE, reason |-> "max rounds reached"]
       ELSE [approved |-> FALSE, finished |-> FALSE, reason |-> "continue debate"]

check_approval(vote_result, max_rounds, current_round, yes_votes_needed, no_votes_limit, require_yes_over_no) ==
    LET yes == vote_result.yes
        no == vote_result.no
        passed == [approved |-> TRUE, finished |-> TRUE, reason |-> "approved"]
    IN IF yes >= yes_votes_needed /\ require_yes_over_no /\ yes > no THEN passed
       ELSE IF yes >= yes_votes_needed /\ ~require_yes_over_no THEN passed
       ELSE IF no >= no_votes_limit
            THEN [approved |-> FALSE, finished |-> TRUE, reason |-> "too many against"]
       ELSE IF current_round >= max_rounds
            THEN [approved |-> FALSE, finished |-> TRUE, reason |-> "max rounds reached"]
       ELSE [approved |-> FALSE, finished |-> FALSE, reason |-> "continue debate"]

----------------------------------------------------------------------------
(* Session snapshot: serialize_state / deserialize_state.  A datetime t is   *)
(* written by isoformat() as the text [iso |-> t] and read back by          *)
(* fromisoformat(); an enum member is written as its value.                 *)

isoformat(t) == [iso |-> t]
fromisoformat(text) == text.iso

SerializeEvent(event) ==
    [event_type |-> EventTypeValue(event.event_type), actor |-> event.actor,
     content |-> event.content, timestamp |-> isoformat(event.timestamp),
     metadata |-> event.metadata, vote_result |-> event.vote_result,
     target_issue |-> event.target_issue, human_action |-> event.human_action]

SerializeViewpoint(vp) ==
    [id |-> vp.id, content |-> vp.content, evidence |-> vp.evidence,
     proposer |-> vp.proposer, status |-> ViewpointStatusValue(vp.status),
     vote_count |-> vp.vote_count, created_round |-> vp.created_round,
     resolved_round |-> vp.resolved_round, solutions |-> vp.solutions,
     arguments |-> vp.arguments]

serialize_state(s, reason, now) ==
    [version |-> "1.0",
     saved_at |-> isoformat(now),
     save_reason |-> reason,
     state |-> [rfc_content |-> s.rfc_content,
                modified_rfc_content |-> s.modified_rfc_content,
                max_rounds |-> s.max_rounds,
                current_round |-> s.current_round,
                current_focus |-> s.current_focus,
                consensus_points |-> s.consensus_points,
                open_issues |-> s.open_issues,
                viewpoint_pool |->
                    [i \in 1..Len(s.viewpoint_pool) |-> SerializeViewpoint(s.viewpoint_pool[i])],
                resolved_viewpoints |->
                    [i \in 1..Len(s.resolved_viewpoints) |->
                        SerializeViewpoint(s.resolved_viewpoints[i])],
                awaiting_human_input |-> s.awaiting_human_input,
                human_decision |-> s.human_decision,
                last_human_action |-> s.last_human_action,
                timeout_count |-> s.timeout_count,
                workflow_status |-> s.workflow_status,
                events |-> [i \in 1..Len(s.events) |-> SerializeEvent(s.events[i])]]]

DeserializeEvent(event_dict) ==
    LET EventTypeFromValue(v) ==
            IF \E n \in EventTypeNames : EventTypeValue(n) = v
            THEN CHOOSE n \in EventTypeNames : EventTypeValue(n) = v
            ELSE "ROLE_REVIEW"
    IN
    [event_type |-> EventTypeFromValue(event_dict.event_type), actor |-> event_dict.actor,
     content |-> event_dict.content, timestamp |-> fromisoformat(event_dict.timestamp),
     metadata |-> event_dict.metadata, vote_result |-> event_dict.vote_result,
     target_issue |-> event_dict.target_issue, human_action |-> event_dict.human_action]

\* Viewpoint(...) is built without proposed_solution, which takes its default
DeserializeViewpoint(vp_dict, fallback) ==
    LET ViewpointStatusFromValue(v) ==
            IF \E n \in ViewpointStatusNames : ViewpointStatusValue(n) = v
            THEN CHOOSE n \in ViewpointStatusNames : ViewpointStatusValue(n) = v
            ELSE fallback
    IN
    [id |-> vp_dict.id, content |-> vp_dict.content, evidence |-> vp_dict.evidence,
     proposer |-> vp_dict.proposer,
     status |-> ViewpointStatusFromValue(vp_dict.status),
     vote_count |-> vp_dict.vote_count, created_round |-> vp_dict.created_round,
     resolved_round |-> vp_dict.resolved_round, solutions |-> vp_dict.solutions,
     arguments |-> vp_dict.arguments, proposed_solution |-> None]

\* the three rfc_* keys are read with .get from a dict that never holds them
deserialize_state(data) ==
    LET state_data == data.state IN
    [events |-> [i \in 1..Len(state_data.events) |-> DeserializeEvent(state_data.events[i])],
     rfc_content |-> state_data.rfc_content,
     modified_rfc_content |-> state_data.modified_rfc_content,
     max_rounds |-> state_data.max_rounds,
     current_round |-> state_data.current_round,
     current_focus |-> state_data.current_focus,
     consensus_points |-> state_data.consensus_points,
     open_issues |-> state_data.open_issues,
     viewpoint_pool |->
        [i \in 1..Len(state_data.viewpoint_pool) |->
            DeserializeViewpoint(state_data.viewpoint_pool[i], "ACTIVE")],
     resolved_viewpoints |->
        [i \in 1..Len(state_data.resolved_viewpoints) |->
            DeserializeViewpoint(state_data.resolved_viewpoints[i], "RESOLVED")],
     awaiting_human_input |-> state_data.awaiting_human_input,
     human_decision |-> state_data.human_decision,
     last_human_action |-> state_data.last_human_action,
     timeout_count |-> state_data.timeout_count,
     workflow_status |-> state_data.workflow_status,
     rfc_modification_applied |-> FALSE,
     rfc_final_vote_results |-> <<>>,
     rfc_final_vote_passed |-> <<>>]

----------------------------------------------------------------------------
(* The compiled graph (workflow/graph.py).  StateGraph(DiscussionState)     *)
(* keeps one channel per key; a node's returned dict is written key by key: *)
(* a key annotated with a reducer (core/state.py:81-94) receives            *)
(* reducer(current, returned), every other key is overwritten.             *)

MergeIntoGraphState(current, returned) ==
    [returned EXCEPT
        !.events = current.events \o returned.events,
        !.consensus_points = current.consensus_points \o returned.consensus_points,
        !.open_issues = current.open_issues \o returned.open_issues,
        !.viewpoint_pool = current.viewpoint_pool \o returned.viewpoint_pool,
        !.resolved_viewpoints = current.resolved_viewpoints \o returned.resolved_viewpoints]

route_after_vote_with_pool(s) ==
    IF Len(s.viewpoint_pool) > 0 THEN "viewpoint_pool_manager"
    ELSE IF s.workflow_status = "AWAITING_HUMAN" THEN "human_oversight"
    ELSE "clerk_summary"

route_after_pool_manager(s) ==
    IF Len(s.viewpoint_pool) > 0 THEN "parallel_review" ELSE "clerk_summary"

\* workflow/edges.py: END is "__end__"
route_after_human(s) ==
    LET action == IF s.human_decision = <<>> THEN None ELSE s.human_decision[1].action IN
    IF action = "TERMINATE" THEN "__end__"
    ELSE IF action = "FORCE_PASS" THEN "final_report"
    ELSE "parallel_review"

\* build_review_workflow's lambda: s.get("human_decision", {}).get("action")
\* is evaluated on the stored value, and None has no get
review_workflow_route_after_human(s) ==
    IF s.human_decision = <<>> THEN "AttributeError"
    ELSE IF s.human_decision[1].action = "TERMINATE" THEN "final_report"
    ELSE "parallel_review"

Running == graph_error = "none" /\ steps < MaxSteps

InitNode ==
    /\ Running /\ active = {"init"}
    /\ state' = MergeIntoGraphState(state, init_node(state))
    /\ active' = {"parallel_review"}
    /\ steps' = steps + 1
    /\ UNCHANGED <<review_results, graph, graph_error, next_id, input, output, saved, restored>>

\* parallel_review_node, lines 154-233: the next role in configured order is reviewed
ReviewRole ==
    /\ Running /\ active = {"parallel_review"}
    /\ Len(review_results) < NumRoles
    /\ \E result \in ReviewOutcomes(Roles[Len(review_results) + 1], state.viewpoint_pool) :
          review_results' = Append(review_results, result)
    /\ UNCHANGED <<state, active, steps, graph, graph_error, next_id, input, output, saved, restored>>

\* parallel_review_node, lines 235-243: the stop signal is seen after a role's
\* review; the node tries to save its input state and returns it
ParallelReviewStop ==
    /\ Running /\ active = {"parallel_review"}
    /\ Len(review_results) >= 1
    /\ state' = MergeIntoGraphState(state, state)
    /\ \/ saved' = serialize_state(state, "manual_stop", steps + 1)
       \/ UNCHANGED saved
    /\ review_results' = <<>>
    /\ active' = {"vote_analyzer"}
    /\ steps' = steps + 1
    /\ UNCHANGED <<graph, graph_error, next_id, input, output, restored>>

\* parallel_review_node, lines 245-360, and the write of its result to the channels
ParallelReviewFinish ==
    /\ Running /\ active = {"parallel_review"}
    /\ Len(review_results) = NumRoles
    /\ LET returned == parallel_review_node(state, review_results, next_id, steps + 1) IN
         /\ state' = MergeIntoGraphState(state, returned)
         /\ next_id' = next_id + (Len(returned.viewpoint_pool) - Len(state.viewpoint_pool))
    /\ review_results' = <<>>
    /\ active' = {"vote_analyzer"}
    /\ steps' = steps + 1
    /\ UNCHANGED <<graph, graph_error, input, output, saved, restored>>

VoteAnalyzer ==
    /\ Running /\ active = {"vote_analyzer"}
    /\ state' = MergeIntoGraphState(state, vote_analyzer_node(state, steps + 1))
    /\ active' = {route_after_vote_with_pool(state')}
    /\ steps' = steps + 1
    /\ UNCHANGED <<review_results, graph, graph_error, next_id, input, output, saved, restored>>

\* the node has an unconditional edge to clerk_summary and a conditional edge
ViewpointPoolManager ==
    /\ Running /\ active = {"viewpoint_pool_manager"}
    /\ state' = MergeIntoGraphState(state, viewpoint_pool_manager_node(state, steps + 1))
    /\ active' = {"clerk_summary"} \cup {route_after_pool_manager(state')}
    /\ steps' = steps + 1
    /\ UNCHANGED <<review_results, graph, graph_error, next_id, input, output, saved, restored>>

ClerkSummary ==
    /\ Running /\ active = {"clerk_summary"}
    /\ \E ok \in BOOLEAN :
          state' = MergeIntoGraphState(state, clerk_summary_node(state, ok, steps + 1))
    /\ active' = {"parallel_review"}
    /\ steps' = steps + 1
    /\ UNCHANGED <<review_results, graph, graph_error, next_id, input, output, saved, restored>>

HumanOversight ==
    LET Targets(t) == IF t = "__end__" THEN {} ELSE {t}
    IN
    /\ Running /\ active = {"human_oversight"}
    /\ state' = MergeIntoGraphState(state, human_oversight_node(state))
    /\ steps' = steps + 1
    /\ IF graph = "build_workflow_graph"
       THEN /\ active' = Targets(route_after_human(state'))
            /\ UNCHANGED graph_error
       ELSE LET t == review_workflow_route_after_human(state') IN
            IF t = "AttributeError"
            THEN active' = {} /\ graph_error' = "AttributeError"
            ELSE active' = {t} /\ UNCHANGED graph_error
    /\ UNCHANGED <<review_results, graph, next_id, input, output, saved, restored>>

\* two nodes scheduled in one superstep both write every key of the state; a key
\* without a reducer accepts one write per superstep (InvalidUpdateError)
ConcurrentSuperstep ==
    /\ Running /\ Cardinality(active) > 1
    /\ graph_error' = "InvalidUpdateError"
    /\ active' = {}
    /\ steps' = steps + 1
    /\ UNCHANGED <<state, review_results, graph, next_id, input, output, saved, restored>>

Idle == [op |-> "none"]

Init ==
    /\ \E max_rounds \in 1..MaxRoundsCfg : state = create_initial_state("rfc", max_rounds)
    /\ active = {"init"}
    /\ review_results = <<>>
    /\ steps = 0
    /\ graph \in {"build_workflow_graph", "build_review_workflow"}
    /\ graph_error = "none"
    /\ next_id = 1
    /\ input = Idle
    /\ output = Idle
    /\ saved = Idle
    /\ restored = Idle

Next ==
    \/ InitNode
    \/ ReviewRole
    \/ ParallelReviewStop
    \/ ParallelReviewFinish
    \/ VoteAnalyzer
    \/ ViewpointPoolManager
    \/ ClerkSummary
    \/ HumanOversight
    \/ ConcurrentSuperstep

Spec == Init /\ [][Next]_vars

----------------------------------------------------------------------------
(* Pure functions applied to inputs drawn from bounded sets *)

RoundValues == (0..(MaxRoundsCfg + 1)) \cup {DEFAULT_MAX_ROUNDS}
MaxRoundsValues == (1..MaxRoundsCfg) \cup {DEFAULT_MAX_ROUNDS}

HumanDecisions ==
    {<<>>} \cup {<<[action |-> a]>> : a \in {"TERMINATE", "CONTINUE", "FORCE_PASS", None}}

SeqsUpTo(S, n) == UNION {[1..k -> S] : k \in 0..n}

VoteAnalyzerInputs ==
    \* events of a log in round 2: reviews of the round with each stance or none,
    \* a review of round 1, and a VOTE event of the round
    LET BallotEvents ==
            {DiscussionEvent("ROLE_REVIEW", Roles[1], "review", 1, [round |-> 2], v) :
                v \in Stances \cup {None}} \cup
            {DiscussionEvent("ROLE_REVIEW", Roles[1], "review", 1, [round |-> 1], "AGAINST"),
             DiscussionEvent("VOTE", "system", "final vote", 1, [round |-> 2], "AGAINST")}
    IN
    {[op |-> "vote_analyzer_node",
      s |-> [create_initial_state("rfc", DEFAULT_MAX_ROUNDS)
                EXCEPT !.current_round = 2, !.events = ev]] :
        ev \in SeqsUpTo(BallotEvents, MaxBallots)}

InterveneInputs ==
    {[op |-> "should_human_intervene", s |-> i.s] : i \in VoteAnalyzerInputs}

LogEvent(i) == DiscussionEvent("ROLE_REVIEW", RoleNames[((i - 1) % 4) + 1], "review", i,
                               [round |-> 1], IF i % 2 = 0 THEN "FOR" ELSE None)

\* states whose log holds the first k events, with fields away from their defaults
LoggedStates ==
    {[create_initial_state("rfc", DEFAULT_MAX_ROUNDS)
        EXCEPT !.events = [i \in 1..k |-> LogEvent(i)],
               !.awaiting_human_input = a,
               !.rfc_modification_applied = a,
               !.modified_rfc_content = IF a THEN "modified rfc" ELSE None,
               !.rfc_final_vote_passed = IF a THEN <<TRUE>> ELSE <<>>,
               !.human_decision = hd,
               !.open_issues = IF a THEN <<"issue-1">> ELSE <<>>] :
        k \in 0..MaxEvents, a \in BOOLEAN, hd \in HumanDecisions}

CallRoute ==
    /\ input.op = "route" /\ output = Idle
    /\ output' = [op |-> "route", result |-> route(input.self, input.s)]
    /\ UNCHANGED <<state, active, review_results, steps, graph, graph_error, next_id,
                   input, saved, restored>>

CallCheckViewpointResolved ==
    /\ input.op = "check_viewpoint_resolved" /\ output = Idle
    /\ output' = [op |-> "check_viewpoint_resolved",
                  result |-> check_viewpoint_resolved(input.viewpoint, input.total_reviewers)]
    /\ UNCHANGED <<state, active, review_results, steps, graph, graph_error, next_id,
                   input, saved, restored>>

CallCheckApproval ==
    /\ input.op = "check_approval" /\ output = Idle
    /\ output' = [op |-> "check_approval",
                  result |-> check_approval(input.vote_result, input.max_rounds,
                                 input.current_round, input.yes_votes_needed,
                                 input.no_votes_limit, input.require_yes_over_no)]
    /\ UNCHANGED <<state, active, review_results, steps, graph, graph_error, next_id,
                   input, saved, restored>>

CallAnalyzeVotes ==
    /\ input.op = "analyze_votes" /\ output = Idle
    /\ output' = [op |-> "analyze_votes", result |-> analyze_votes(input.results)]
    /\ UNCHANGED <<state, active, review_results, steps, graph, graph_error, next_id,
                   input, saved, restored>>

CallVoteAnalyzerNode ==
    /\ input.op = "vote_analyzer_node" /\ output = Idle
    /\ output' = [op |-> "vote_analyzer_node", result |-> vote_analyzer_node(input.s, 2)]
    /\ UNCHANGED <<state, active, review_results, steps, graph, graph_error, next_id,
                   input, saved, restored>>

CallShouldHumanIntervene ==
    /\ input.op = "should_human_intervene" /\ output = Idle
    /\ output' = [op |-> "should_human_intervene",
                  result |-> should_human_intervene(default_router, input.s)]
    /\ UNCHANGED <<state, active, review_results, steps, graph, graph_error, next_id,
                   input, saved, restored>>

CallRouteAfter ==
    /\ input.op \in {"route_after_vote", "route_after_summary"} /\ output = Idle
    /\ output' = [op |-> input.op,
                  result |-> IF input.op = "route_after_vote"
                             THEN route_after_vote(input.s)
                             ELSE route_after_summary(input.s)]
    /\ UNCHANGED <<state, active, review_results, steps, graph, graph_error, next_id,
                   input, saved, restored>>

\* the vote recorded by vote_viewpoint, and the same vote as a
\* respond_to_viewpoint call merged by parallel_review_node
CallVoteViewpoint ==
    /\ input.op = "vote_viewpoint" /\ output = Idle
    /\ output' = [op |-> "vote_viewpoint",
                  result |-> vote_viewpoint(input.pool[2], input.vote_result),
                  merged |-> ApplyResponse(input.pool, input.vote_result.actor,
                                 [viewpoint_id |-> input.pool[2].id,
                                  stance |-> input.vote_result.vote,
                                  response |-> input.vote_result.content],
                                 input.vote_result.round)]
    /\ UNCHANGED <<state, active, review_results, steps, graph, graph_error, next_id,
                   input, saved, restored>>

CallClerkSummaryNode ==
    /\ input.op = "clerk_summary_node" /\ output = Idle
    /\ output' = [op |-> "clerk_summary_node",
                  result |-> clerk_summary_node(input.s, input.ok, 9)]
    /\ UNCHANGED <<state, active, review_results, steps, graph, graph_error, next_id,
                   input, saved, restored>>

CallResolveActiveViewpoints ==
    /\ input.op = "resolve_active_viewpoints" /\ output = Idle
    /\ output' = [op |-> "resolve_active_viewpoints",
                  result |-> resolve_active_viewpoints(input.s, input.current_round)]
    /\ UNCHANGED <<state, active, review_results, steps, graph, graph_error, next_id,
                   input, saved, restored>>

CallAddEvent ==
    /\ input.op = "add_event" /\ output = Idle
    /\ output' = [op |-> "add_event", result |-> add_event(input.s, input.event),
                  argument_after |-> add_event_argument_after(input.s, input.event)]
    /\ UNCHANGED <<state, active, review_results, steps, graph, graph_error, next_id,
                   input, saved, restored>>

CallGetLatestEvents ==
    /\ input.op = "get_latest_events" /\ output = Idle
    /\ output' = [op |-> "get_latest_events",
                  result |-> get_latest_events(input.s, input.count),
                  argument_after |-> input.s]
    /\ UNCHANGED <<state, active, review_results, steps, graph, graph_error, next_id,
                   input, saved, restored>>

InitPure ==
    \* a pool of two viewpoints, the second one voted on once already and
    \* possibly carrying a suggested solution, and a vote on the second one
    LET SummaryInputs ==
            {[op |-> "clerk_summary_node", s |-> s, ok |-> ok] :
                s \in LoggedStates, ok \in BOOLEAN}
    IN
    \* a pool of two viewpoints, the second one voted on once already and
    \* possibly carrying a suggested solution, and a vote on the second one
    LET VoteInputs ==
            {[op |-> "vote_viewpoint",
              pool |-> <<create_viewpoint(1, CandA.content, CandA.evidence, Roles[1], 1),
                         [create_viewpoint(2, CandB.content, CandB.evidence, Roles[2], 1)
                            EXCEPT !.vote_count = [ZeroVotes EXCEPT ![st0] = 1],
                                   !.arguments = <<[actor |-> Roles[1], content |-> "response",
                                                    stance |-> st0, round |-> 1]>>,
                                   !.proposed_solution = ps]>>,
              vote_result |-> [keys |-> k, vote |-> st, actor |-> Roles[r],
                               content |-> "response", round |-> 2]] :
                st0 \in Stances, ps \in {None, "solution"}, r \in 1..NumRoles,
                st \in Stances \cup {"unsure"},
                k \in {{"vote", "actor", "content", "round"}, {"actor", "content"}}}
    IN
    \* states of a discussion configured with max_rounds m, every key present
    LET EdgeInputs ==
            {[op |-> o,
              s |-> [keys |-> RouterStateKeys, human_decision |-> hd, awaiting_human_input |-> a,
                     current_round |-> r, open_issues |-> oi, max_rounds |-> m]] :
                o \in {"route_after_vote", "route_after_summary"},
                hd \in HumanDecisions, a \in BOOLEAN, r \in RoundValues,
                oi \in {<<>>, <<"issue-1">>}, m \in MaxRoundsValues}
    IN
    LET SweepInputs ==
            LET SweepPools ==
                    \* a pool entry with id i: resolved by votes, tied, at exactly half of the
                    \* reviewers, or no longer active
                    LET SweepViewpoints(i) ==
                            {[create_viewpoint(i, CandA.content, CandA.evidence, Roles[1], 1)
                                EXCEPT !.status = t.st, !.vote_count = [FOR |-> t.f, AGAINST |-> t.a, ABSTAIN |-> 0]] :
                                t \in {[st |-> "ACTIVE", f |-> reviewers_count - 1, a |-> 0],
                                       [st |-> "ACTIVE", f |-> reviewers_count \div 2, a |-> reviewers_count \div 2],
                                       [st |-> "ACTIVE", f |-> reviewers_count \div 2, a |-> 0],
                                       [st |-> "REJECTED", f |-> 0, a |-> 0]}}
                    IN
                    UNION {{pool \in [1..n -> UNION {SweepViewpoints(i) : i \in 1..n}] :
                               \A i \in 1..n : pool[i].id = i} : n \in 0..VIEWPOINT_POOL_LIMIT}
            IN
            {[op |-> "resolve_active_viewpoints",
              s |-> [create_initial_state("rfc", DEFAULT_MAX_ROUNDS)
                       EXCEPT !.viewpoint_pool = pool,
                              !.resolved_viewpoints = old,
                              !.current_round = r,
                              !.awaiting_human_input = TRUE,
                              !.workflow_status = "AWAITING_HUMAN",
                              !.events = <<LogEvent(1)>>],
              current_round |-> r] :
                pool \in SweepPools, r \in 2..3,
                old \in {<<>>, <<resolve_viewpoint(create_viewpoint(9, CandB.content, CandB.evidence,
                                                                    Roles[1], 1), 1)>>}}
    IN
    LET LatestInputs ==
            {[op |-> "get_latest_events", s |-> s, count |-> n] :
                s \in LoggedStates, n \in 0..(MaxEvents + 1)}
    IN
    LET AddEventInputs ==
            {[op |-> "add_event", s |-> s, event |-> e] :
                s \in LoggedStates,
                e \in {LogEvent(MaxEvents + 1),
                       DiscussionEvent("CLARIFICATION", "clerk", "summary failed", 9,
                                       [round |-> 1, error |-> TRUE], None)}}
    IN
    \* the result dicts of a round as analyze_votes reads them
    LET AnalyzeInputs ==
            {[op |-> "analyze_votes", results |-> [i \in 1..Len(votes) |-> [vote |-> votes[i]]]] :
                votes \in SeqsUpTo(Stances \cup {None}, MaxBallots)}
    IN
    LET ApprovalInputs ==
            {[op |-> "check_approval", vote_result |-> [yes |-> y, no |-> n],
              max_rounds |-> m, current_round |-> r,
              yes_votes_needed |-> yn, no_votes_limit |-> nl, require_yes_over_no |-> req] :
                y \in 0..MaxVotes, n \in 0..MaxVotes, m \in MaxRoundsValues,
                r \in RoundValues \ {0}, yn \in 1..MaxVotes, nl \in 1..MaxVotes, req \in BOOLEAN}
    IN
    LET ResolvedInputs ==
            LET VotedViewpoints ==
                    {[create_viewpoint(1, CandA.content, CandA.evidence, Roles[1], 1)
                        EXCEPT !.status = st, !.vote_count = [FOR |-> f, AGAINST |-> a, ABSTAIN |-> 0]] :
                        st \in ViewpointStatusNames, f \in 0..MaxVotes, a \in 0..MaxVotes}
            IN
            {[op |-> "check_viewpoint_resolved", viewpoint |-> vp, total_reviewers |-> t] :
                vp \in VotedViewpoints, t \in 0..(MaxVotes + 1)}
    IN
    LET RouteInputs ==
            LET RouterStates ==
                    {[keys |-> k, human_decision |-> hd, awaiting_human_input |-> a,
                      current_round |-> r, open_issues |-> oi] :
                        k \in SUBSET RouterStateKeys, hd \in HumanDecisions, a \in BOOLEAN,
                        r \in 0..(MaxRoundsCfg + 1), oi \in {<<>>, <<"issue-1">>}}
            IN
            {[op |-> "route", self |-> WorkflowRouter(m), s |-> s] :
                m \in {MaxRoundsCfg, DEFAULT_MAX_ROUNDS}, s \in RouterStates}
    IN
    /\ state = create_initial_state("rfc", DEFAULT_MAX_ROUNDS)
    /\ active = {}
    /\ review_results = <<>>
    /\ steps = 0
    /\ graph = "none"
    /\ graph_error = "none"
    /\ next_id = 1
    /\ input \in RouteInputs \cup ResolvedInputs \cup ApprovalInputs \cup AnalyzeInputs
                  \cup VoteAnalyzerInputs \cup AddEventInputs \cup LatestInputs
                  \cup SweepInputs \cup InterveneInputs \cup EdgeInputs \cup VoteInputs
                  \cup SummaryInputs
    /\ output = Idle
    /\ saved = Idle
    /\ restored = Idle

NextPure ==
    \/ CallRoute
    \/ CallCheckViewpointResolved
    \/ CallCheckApproval
    \/ CallAnalyzeVotes
    \/ CallVoteAnalyzerNode
    \/ CallAddEvent
    \/ CallGetLatestEvents
    \/ CallResolveActiveViewpoints
    \/ CallShouldHumanIntervene
    \/ CallVoteViewpoint
    \/ CallClerkSummaryNode
    \/ CallRouteAfter

SpecPure == InitPure /\ [][NextPure]_vars

----------------------------------------------------------------------------
(* Proposal attempts against the pool, through either add_viewpoint_to_pool *)

ProposedViewpoints(s, id) ==
    {create_viewpoint(id, c.content, c.evidence, Roles[r], s.current_round) :
        c \in {CandA, CandB}, r \in 1..NumRoles}

CoreAddViewpoint ==
    /\ active = {"pool"} /\ steps < MaxAttempts
    /\ \E vp \in ProposedViewpoints(state, next_id) :
          LET res == add_viewpoint_to_pool(state, vp) IN
            /\ state' = res.state
            /\ output' = [op |-> "core.add_viewpoint_to_pool", raised |-> res.raised,
                          rejected |-> (res.raised # "none"), before |-> state.viewpoint_pool]
    /\ next_id' = next_id + 1
    /\ steps' = steps + 1
    /\ UNCHANGED <<active, review_results, graph, graph_error, input, saved, restored>>

NodesAddViewpoint ==
    /\ active = {"pool"} /\ steps < MaxAttempts
    /\ \E vp \in ProposedViewpoints(state, next_id) :
          /\ state' = nodes_add_viewpoint_to_pool(state, vp)
          /\ output' = [op |-> "nodes.add_viewpoint_to_pool", raised |-> "none",
                        rejected |-> (state' = state), before |-> state.viewpoint_pool]
    /\ next_id' = next_id + 1
    /\ steps' = steps + 1
    /\ UNCHANGED <<active, review_results, graph, graph_error, input, saved, restored>>

InitPool ==
    /\ state = create_initial_state("rfc", DEFAULT_MAX_ROUNDS)
    /\ active = {"pool"}
    /\ review_results = <<>>
    /\ steps = 0
    /\ graph = "none"
    /\ graph_error = "none"
    /\ next_id = 1
    /\ input = Idle
    /\ output = Idle
    /\ saved = Idle
    /\ restored = Idle

NextPool ==
    \/ CoreAddViewpoint
    \/ NodesAddViewpoint

SpecPool == InitPool /\ [][NextPool]_vars

----------------------------------------------------------------------------
(* One call of parallel_review_node on a state whose pool already holds     *)
(* viewpoints of this or an earlier round.                                  *)

\* an earlier proposal of the first role is put into the pool
SeedViewpoint ==
    /\ active = {"review"} /\ output = Idle
    /\ can_add_viewpoint(state)
    /\ state' = add_viewpoint_to_pool(state,
                    create_viewpoint(next_id, CandA.content, CandA.evidence, Roles[1],
                                     state.current_round)).state
    /\ next_id' = next_id + 1
    /\ steps' = steps + 1
    /\ UNCHANGED <<active, review_results, graph, graph_error, input, output, saved, restored>>

\* the clerk closes the round
NextRound ==
    /\ active = {"review"} /\ output = Idle
    /\ state.current_round < state.max_rounds
    /\ state' = clerk_summary_node(state, TRUE, steps + 1)
    /\ steps' = steps + 1
    /\ UNCHANGED <<active, review_results, graph, graph_error, next_id, input, output,
                   saved, restored>>

CallParallelReview ==
    \* the results of the roles' reviews as far as proposals are concerned
    LET ProposalOutcomes(role) ==
            {FailedReview(role)} \cup
            {[role |-> role, content |-> "review", vote |-> "FOR", new_viewpoints |-> nv,
              tool_calls |-> <<>>] : nv \in CandidateLists}
    IN
    /\ active = {"review"} /\ output = Idle
    /\ \E results \in [1..NumRoles -> UNION {ProposalOutcomes(Roles[i]) : i \in 1..NumRoles}] :
          /\ \A i \in 1..NumRoles : results[i].role = Roles[i]
          /\ state' = parallel_review_node(state, results, next_id, steps + 1)
          /\ output' = [op |-> "parallel_review_node", results |-> results,
                        before |-> state.viewpoint_pool, round |-> state.current_round]
    /\ next_id' = next_id + (Len(state'.viewpoint_pool) - Len(state.viewpoint_pool))
    /\ steps' = steps + 1
    /\ UNCHANGED <<active, review_results, graph, graph_error, input, saved, restored>>

InitReview ==
    /\ \E m \in 1..MaxRoundsCfg : state = create_initial_state("rfc", m)
    /\ active = {"review"}
    /\ review_results = <<>>
    /\ steps = 0
    /\ graph = "none"
    /\ graph_error = "none"
    /\ next_id = 1
    /\ input = Idle
    /\ output = Idle
    /\ saved = Idle
    /\ restored = Idle

NextReview ==
    \/ SeedViewpoint
    \/ NextRound
    \/ CallParallelReview

SpecReview == InitReview /\ [][NextReview]_vars

----------------------------------------------------------------------------
(* workflow/nodes.py: the RFC modification and final vote nodes *)

\* ok: whether the clerk's call returned
clerk_rfc_modify_node(s, ok, now) ==
    LET current_round == s.current_round
        IsNew(vp) == vp.resolved_round = <<current_round>>
        new_resolved == SelectSeq(s.resolved_viewpoints, IsNew)
    IN IF new_resolved = <<>>
       THEN add_event([s EXCEPT !.modified_rfc_content = s.rfc_content,
                                !.rfc_modification_applied = FALSE],
                      DiscussionEvent("CLARIFICATION", "clerk", "rfc unchanged", now,
                          [round |-> current_round, modification |-> "none"], None))
       ELSE IF ok
       THEN add_event([s EXCEPT !.modified_rfc_content = "modified rfc",
                                !.rfc_modification_applied = TRUE],
                      DiscussionEvent("CLARIFICATION", "clerk", "rfc modified", now,
                          [round |-> current_round, modification |-> "applied",
                           resolved_viewpoints |->
                              [i \in 1..Len(new_resolved) |-> new_resolved[i].id]], None))
       ELSE add_event([s EXCEPT !.modified_rfc_content = s.rfc_content,
                                !.rfc_modification_applied = FALSE],
                      DiscussionEvent("CLARIFICATION", "clerk", "rfc modification failed", now,
                          [round |-> current_round, modification |-> "failed"], None))

\* votes: the vote parsed from each role's answer, in role order (a failed call
\* is recorded as ABSTAIN)
rfc_vote_node(s, votes, now) ==
    LET current_round == s.current_round
        vote_results == [i \in 1..Len(votes) |->
            [voter |-> Roles[i], issue_id |-> "RFC_FINAL_VOTE", vote |-> votes[i],
             reason |-> "answer"]]
        yes_votes == CountVotes(votes, "FOR")
        no_votes == CountVotes(votes, "AGAINST")
        abstain_votes == CountVotes(votes, "ABSTAIN")
        rfc_passed == yes_votes > no_votes
        vote_event == [DiscussionEvent("VOTE", "system", "final vote", now,
            [round |-> current_round,
             vote_summary |-> [FOR |-> yes_votes, AGAINST |-> no_votes, ABSTAIN |-> abstain_votes],
             rfc_passed |-> rfc_passed, vote_results |-> vote_results], None)
            EXCEPT !.vote_result = IF rfc_passed THEN "FOR" ELSE "AGAINST"]
    IN [add_event(s, vote_event) EXCEPT
          !.rfc_final_vote_results = <<vote_results>>,
          !.rfc_final_vote_passed = <<rfc_passed>>,
          !.workflow_status = IF rfc_passed THEN "RFC_PASSED" ELSE "DISCUSSING"]

----------------------------------------------------------------------------
(* Snapshot specification: a session state is built from the initial state  *)
(* by the nodes' own code (one review round, responses to the first         *)
(* viewpoint, the pool manager, the RFC modification, the final vote, the   *)
(* final report), saved at any point and loaded again.                      *)

InSession == active = {"session"} /\ saved = Idle

SessionReview ==
    LET SessionOutcomes(role) ==
            {FailedReview(role),
             [role |-> role, content |-> "review", vote |-> "FOR",
              new_viewpoints |-> <<CandA>>, tool_calls |-> <<>>]}
    IN
    /\ InSession /\ state.events = <<>> /\ state.workflow_status = "DISCUSSING"
    /\ \E results \in [1..NumRoles -> UNION {SessionOutcomes(Roles[i]) : i \in 1..NumRoles}] :
          /\ \A i \in 1..NumRoles : results[i].role = Roles[i]
          /\ LET returned == parallel_review_node(state, results, next_id, steps + 1)
             IN /\ state' = returned
                /\ next_id' = next_id + Len(returned.viewpoint_pool)
    /\ steps' = steps + 1
    /\ UNCHANGED <<active, review_results, graph, graph_error, input, output, saved, restored>>

\* one more reviewer agrees with the first viewpoint of the pool
SessionRespond ==
    /\ InSession /\ state.viewpoint_pool # <<>>
    /\ state.viewpoint_pool[1].vote_count.FOR < MaxVotes
    /\ state.modified_rfc_content = None /\ state.rfc_final_vote_passed = <<>>
    /\ state.workflow_status = "DISCUSSING"
    /\ state' = [state EXCEPT !.viewpoint_pool =
          ApplyResponse(state.viewpoint_pool,
              Roles[(state.viewpoint_pool[1].vote_count.FOR % NumRoles) + 1],
              [viewpoint_id |-> state.viewpoint_pool[1].id, stance |-> "FOR",
               response |-> "response"], state.current_round)]
    /\ steps' = steps + 1
    /\ UNCHANGED <<active, review_results, graph, graph_error, next_id,
                   input, output, saved, restored>>

SessionPoolManager ==
    /\ InSession /\ state.viewpoint_pool # <<>>
    /\ check_viewpoint_resolved(state.viewpoint_pool[1], reviewers_count)
    /\ state.modified_rfc_content = None /\ state.rfc_final_vote_passed = <<>>
    /\ state.workflow_status = "DISCUSSING"
    /\ state' = viewpoint_pool_manager_node(state, steps + 1)
    /\ steps' = steps + 1
    /\ UNCHANGED <<active, review_results, graph, graph_error, next_id,
                   input, output, saved, restored>>

ClerkRfcModify ==
    /\ InSession
    /\ state.modified_rfc_content = None /\ state.rfc_final_vote_passed = <<>>
    /\ state.workflow_status = "DISCUSSING"
    /\ \E ok \in BOOLEAN : state' = clerk_rfc_modify_node(state, ok, steps + 1)
    /\ steps' = steps + 1
    /\ UNCHANGED <<active, review_results, graph, graph_error, next_id,
                   input, output, saved, restored>>

RfcVote ==
    /\ InSession
    /\ state.rfc_final_vote_passed = <<>> /\ state.workflow_status = "DISCUSSING"
    /\ \E votes \in [1..NumRoles -> Stances] : state' = rfc_vote_node(state, votes, steps + 1)
    /\ steps' = steps + 1
    /\ UNCHANGED <<active, review_results, graph, graph_error, next_id,
                   input, output, saved, restored>>

FinalReport ==
    /\ InSession
    /\ state.workflow_status # "COMPLETED"
    /\ state' = final_report_node(state)
    /\ UNCHANGED <<active, review_results, steps, graph, graph_error, next_id,
                   input, output, saved, restored>>

SaveWorkflowState ==
    /\ InSession
    /\ \E reason \in {"manual", "manual_stop"} :
          saved' = serialize_state(state, reason, steps + 1)
    /\ UNCHANGED <<state, active, review_results, steps, graph, graph_error, next_id,
                   input, output, restored>>

LoadWorkflowState ==
    /\ active = {"session"} /\ saved # Idle /\ restored = Idle
    /\ restored' = [op |-> "load_workflow_state", state |-> deserialize_state(saved),
                    reason |-> saved.save_reason]
    /\ UNCHANGED <<state, active, review_results, steps, graph, graph_error, next_id,
                   input, output, saved>>

InitSnapshot ==
    /\ \E m \in 1..MaxRoundsCfg : state = create_initial_state("rfc", m)
    /\ active = {"session"}
    /\ review_results = <<>>
    /\ steps = 0
    /\ graph = "build_review_workflow"
    /\ graph_error = "none"
    /\ next_id = 1
    /\ input = Idle
    /\ output = Idle
    /\ saved = Idle
    /\ restored = Idle

NextSnapshot ==
    \/ SessionReview
    \/ SessionRespond
    \/ SessionPoolManager
    \/ ClerkRfcModify
    \/ RfcVote
    \/ FinalReport
    \/ SaveWorkflowState
    \/ LoadWorkflowState

SpecSnapshot == InitSnapshot /\ [][NextSnapshot]_vars

----------------------------------------------------------------------------
(* One round of reviews, role by role: parallel_review_node called directly *)
(* (workflow/nodes.py:128-360) and run_debate (shared/debate.py:206-279).   *)
(* The stop flag _review_running_var is cleared by the UI at any time; the  *)
(* node reads it after each role's review.                                  *)

\* variant of the history block that skips the first previous result
PreviousContext_mut(previous_results) ==
    [i \in 1..(Len(previous_results) - 1) |->
        [role |-> previous_results[i + 1].role,
         stance |-> IF Truthy(previous_results[i + 1].vote) THEN previous_results[i + 1].vote
                    ELSE "unknown",
         content |-> previous_results[i + 1].content]]

\* the history block a review function writes into the role's prompt
\* (debate.py:139-157, 572-592, 728-746): one entry per previous result
PreviousContext(previous_results) ==
    [i \in 1..Len(previous_results) |->
        [role |-> previous_results[i].role,
         stance |-> IF Truthy(previous_results[i].vote) THEN previous_results[i].vote
                    ELSE "unknown",
         content |-> previous_results[i].content]]

\* what a review function returns when it does not raise
RoundOutcomes(role, pool) ==
    {[role |-> role, content |-> "review", vote |-> v, new_viewpoints |-> nv, tool_calls |-> tc] :
        v \in {"FOR", "AGAINST"}, nv \in {<<>>, <<CandA>>},
        tc \in {<<>>} \cup {<<[tool |-> "respond_to_viewpoint",
                               arguments |-> [viewpoint_id |-> id, stance |-> "FOR",
                                              response |-> "response"]]>> : id \in PoolIds(pool)}}

\* the calls made so far in this round
Trace == IF input = Idle THEN <<>> ELSE input.trace

\* nodes.py:154-223: the next role in configured order is called with the
\* list of the results so far; an exception becomes the failure record
RoundReviewRole ==
    /\ active = {"parallel_review_node"} /\ output = Idle
    /\ Len(review_results) < NumRoles
    /\ LET role == Roles[Len(review_results) + 1] IN
       \E raised \in BOOLEAN :
       \E returned \in RoundOutcomes(role, state.viewpoint_pool) :
          /\ input' = [op |-> "run_review", role |-> role,
                       current_round |-> state.current_round,
                       previous_results |-> review_results,
                       context |-> PreviousContext(review_results),
                       trace |-> Append(Trace, [role |-> role, raised |-> raised])]
          /\ raised => returned = CHOOSE r \in RoundOutcomes(role, state.viewpoint_pool) : TRUE
          /\ review_results' = Append(review_results,
                                      IF raised THEN FailedReview(role) ELSE returned)
    /\ UNCHANGED <<state, active, steps, graph, graph_error, next_id, output, saved, restored>>

\* variant of the stop branch that lets the next role review before returning
RoundStop_mut ==
    /\ active = {"parallel_review_node"} /\ output = Idle
    /\ Len(review_results) >= 1
    /\ \E save_ok \in BOOLEAN :
          /\ saved' = IF save_ok THEN serialize_state(state, "manual_stop", steps + 1) ELSE saved
          /\ output' = [op |-> "parallel_review_node", stopped |-> TRUE, argument |-> state,
                        review_results |-> review_results, returned |-> state,
                        raised |-> "none", save_ok |-> save_ok]
    /\ review_results' = IF Len(review_results) < NumRoles
                          THEN Append(review_results, FailedReview(Roles[Len(review_results) + 1]))
                          ELSE review_results
    /\ active' = {}
    /\ steps' = steps + 1
    /\ UNCHANGED <<state, graph, graph_error, next_id, input, restored>>

\* variant of the stop branch without the try around the save
RoundStop_unguarded ==
    /\ active = {"parallel_review_node"} /\ output = Idle
    /\ Len(review_results) >= 1
    /\ \E save_ok \in BOOLEAN :
          /\ saved' = IF save_ok THEN serialize_state(state, "manual_stop", steps + 1) ELSE saved
          /\ output' = [op |-> "parallel_review_node", stopped |-> TRUE, argument |-> state,
                        review_results |-> review_results,
                        returned |-> IF save_ok THEN state ELSE create_initial_state("", 0),
                        raised |-> IF save_ok THEN "none" ELSE "OSError",
                        save_ok |-> save_ok]
    /\ active' = {}
    /\ steps' = steps + 1
    /\ UNCHANGED <<state, review_results, graph, graph_error, next_id, input, restored>>

\* nodes.py:234-243: the flag is found cleared after a role's review; the node
\* tries save_workflow_state(state, "manual_stop"), whose failure is caught
\* and logged, and returns state
RoundStop ==
    /\ active = {"parallel_review_node"} /\ output = Idle
    /\ Len(review_results) >= 1
    /\ \E save_ok \in BOOLEAN :
          /\ saved' = IF save_ok THEN serialize_state(state, "manual_stop", steps + 1) ELSE saved
          /\ output' = [op |-> "parallel_review_node", stopped |-> TRUE, argument |-> state,
                        review_results |-> review_results, returned |-> state,
                        raised |-> "none", save_ok |-> save_ok]
    /\ active' = {}
    /\ steps' = steps + 1
    /\ UNCHANGED <<state, review_results, graph, graph_error, next_id, input, restored>>

\* nodes.py:245-360: every role has been reviewed and the flag is still set
RoundFinish ==
    /\ active = {"parallel_review_node"} /\ output = Idle
    /\ Len(review_results) = NumRoles
    /\ LET returned == parallel_review_node(state, review_results, next_id, steps + 1) IN
         /\ output' = [op |-> "parallel_review_node", stopped |-> FALSE, argument |-> state,
                       review_results |-> review_results, returned |-> returned]
         /\ state' = returned
         /\ next_id' = next_id + (Len(returned.viewpoint_pool) - Len(state.viewpoint_pool))
    /\ active' = {}
    /\ steps' = steps + 1
    /\ UNCHANGED <<review_results, graph, graph_error, input, saved, restored>>

\* debate.py:230-277: the next role is called with the list of results so far
DebateRole ==
    /\ active = {"run_debate"} /\ output = Idle
    /\ Len(review_results) < NumRoles
    /\ LET role == Roles[Len(review_results) + 1] IN
       \E raised \in BOOLEAN : \E vote \in {"FOR", "AGAINST", "ABSTAIN", None} :
          /\ input' = [op |-> "_run_role_review_stream", role |-> role,
                       current_round |-> state.current_round,
                       previous_results |-> review_results,
                       context |-> PreviousContext(review_results),
                       trace |-> Append(Trace, [role |-> role, raised |-> raised])]
          /\ raised => vote = None
          /\ review_results' = Append(review_results,
                 IF raised THEN [role |-> role, content |-> "review failed", vote |-> None]
                 ELSE [role |-> role, content |-> "review", vote |-> vote])
    /\ UNCHANGED <<state, active, steps, graph, graph_error, next_id, output, saved, restored>>

\* debate.py:279
DebateReturn ==
    /\ active = {"run_debate"} /\ output = Idle
    /\ Len(review_results) = NumRoles
    /\ output' = [op |-> "run_debate", returned |-> review_results]
    /\ active' = {}
    /\ steps' = steps + 1
    /\ UNCHANGED <<state, review_results, graph, graph_error, next_id, input, saved, restored>>

\* the round starts on a fresh discussion or on one whose pool holds a
\* viewpoint the first role proposed
InitRound ==
    /\ \E m \in 1..MaxRoundsCfg : \E seeded \in BOOLEAN :
          state = IF seeded
                  THEN add_viewpoint_to_pool(create_initial_state("rfc", m),
                           create_viewpoint(1, CandB.content, CandB.evidence, Roles[1], 1)).state
                  ELSE create_initial_state("rfc", m)
    /\ active \in {{"parallel_review_node"}, {"run_debate"}}
    /\ review_results = <<>>
    /\ steps = 0
    /\ graph = "none"
    /\ graph_error = "none"
    /\ next_id = Len(state.viewpoint_pool) + 1
    /\ input = Idle
    /\ output = Idle
    /\ saved = Idle
    /\ restored = Idle

NextRoundOfReviews ==
    \/ RoundReviewRole
    \/ RoundStop
    \/ RoundFinish
    \/ DebateRole
    \/ DebateReturn

SpecRound == InitRound /\ [][NextRoundOfReviews]_vars

----------------------------------------------------------------------------
(* Runs of the compiled graph with each review round taken as one step.    *)
(* The graph is started on the state its caller hands over: the result of  *)
(* create_initial_state (ui/textual_app.py:432, workflow/__main__.py:49) or *)
(* a restored state of an earlier session (run_review_with_state), whose    *)
(* pool and human_decision are whatever the snapshot recorded.              *)

BriefResults ==
    \* the results of one role's review as far as votes and proposals go
    LET BriefOutcomes(role) ==
            {FailedReview(role)} \cup
            {[role |-> role, content |-> "review", vote |-> "FOR", new_viewpoints |-> <<>>,
              tool_calls |-> <<>>]} \cup
            \* a vote against, with a response to the recorded viewpoint; the
            \* second role gives a stance outside the three
            {[role |-> role, content |-> "review", vote |-> "AGAINST", new_viewpoints |-> <<>>,
              tool_calls |-> <<[tool |-> "respond_to_viewpoint",
                               arguments |-> [viewpoint_id |-> 1,
                                              stance |-> IF role = Roles[1] THEN "AGAINST" ELSE "unsure",
                                              response |-> "reply"]]>>]} \cup
            {[role |-> role, content |-> "review", vote |-> "FOR", new_viewpoints |-> <<CandA>>,
              tool_calls |-> <<>>]}
    IN
    {results \in [1..NumRoles -> UNION {BriefOutcomes(Roles[i]) : i \in 1..NumRoles}] :
        \A i \in 1..NumRoles : results[i].role = Roles[i]}

HandedStates ==
    \* a viewpoint of the first role, with the votes an earlier round gave it
    LET RecordedViewpoint(yes) ==
            [create_viewpoint(1, CandB.content, CandB.evidence, Roles[1], 1)
                EXCEPT !.vote_count = [ZeroVotes EXCEPT !["FOR"] = yes],
                       !.arguments = [k \in 1..yes |->
                                        [actor |-> RoleNames[k], content |-> "response",
                                         stance |-> "FOR", round |-> 1]]]
    IN
    {[base EXCEPT !.human_decision = hd] :
        base \in {create_initial_state("rfc", DEFAULT_MAX_ROUNDS)} \cup
                 {add_viewpoint_to_pool(create_initial_state("rfc", DEFAULT_MAX_ROUNDS),
                                        RecordedViewpoint(yes)).state :
                     yes \in {0, reviewers_count - 1}},
        hd \in {<<>>} \cup {<<[action |-> a]>> : a \in {"TERMINATE", "CONTINUE", "FORCE_PASS"}}}

\* parallel_review_node without a stop request, and the write of its result
ReviewRound ==
    /\ Running /\ active = {"parallel_review"}
    /\ \E results \in BriefResults :
         LET returned == parallel_review_node(state, results, next_id, steps + 1) IN
           /\ state' = MergeIntoGraphState(state, returned)
           /\ next_id' = next_id + (Len(returned.viewpoint_pool) - Len(state.viewpoint_pool))
    /\ active' = {"vote_analyzer"}
    /\ steps' = steps + 1
    /\ UNCHANGED <<review_results, graph, graph_error, input, output, saved, restored>>

\* final_report has no outgoing edge: the run ends after it
FinalReportNode ==
    /\ Running /\ active = {"final_report"}
    /\ state' = MergeIntoGraphState(state, final_report_node(state))
    /\ active' = {}
    /\ steps' = steps + 1
    /\ UNCHANGED <<review_results, graph, graph_error, next_id, input, output, saved, restored>>

InitRun ==
    /\ state \in HandedStates
    /\ active = {"init"}
    /\ review_results = <<>>
    /\ steps = 0
    /\ graph \in {"build_workflow_graph", "build_review_workflow"}
    /\ graph_error = "none"
    /\ next_id = Len(state.viewpoint_pool) + 1
    /\ input = Idle
    /\ output = Idle
    /\ saved = Idle
    /\ restored = Idle

NextRun ==
    \/ InitNode
    \/ ReviewRound
    \/ VoteAnalyzer
    \/ ViewpointPoolManager
    \/ ClerkSummary
    \/ HumanOversight
    \/ FinalReportNode
    \/ ConcurrentSuperstep

SpecRun == InitRun /\ [][NextRun]_vars

----------------------------------------------------------------------------
(* Unattended runs: the graph is started on create_initial_state's result, *)
(* every review and every summary call returns, nobody requests a stop.    *)
(* graph.invoke executes a scheduled node in its next superstep, so a step *)
(* that is enabled is eventually taken.                                    *)

ReviewRoundReturned ==
    /\ Running /\ active = {"parallel_review"}
    /\ \E results \in BriefResults :
         /\ \A i \in 1..NumRoles : results[i] # FailedReview(Roles[i])
         /\ LET returned == parallel_review_node(state, results, next_id, steps + 1) IN
              /\ state' = MergeIntoGraphState(state, returned)
              /\ next_id' = next_id + (Len(returned.viewpoint_pool) - Len(state.viewpoint_pool))
    /\ active' = {"vote_analyzer"}
    /\ steps' = steps + 1
    /\ UNCHANGED <<review_results, graph, graph_error, input, output, saved, restored>>

ClerkSummaryReturned ==
    /\ Running /\ active = {"clerk_summary"}
    /\ state' = MergeIntoGraphState(state, clerk_summary_node(state, TRUE, steps + 1))
    /\ active' = {"parallel_review"}
    /\ steps' = steps + 1
    /\ UNCHANGED <<review_results, graph, graph_error, next_id, input, output, saved, restored>>

NextUnattended ==
    \/ InitNode
    \/ ReviewRoundReturned
    \/ VoteAnalyzer
    \/ ViewpointPoolManager
    \/ ClerkSummaryReturned
    \/ HumanOversight
    \/ ConcurrentSuperstep

SpecUnattended == Init /\ [][NextUnattended]_vars /\ WF_vars(NextUnattended)

----------------------------------------------------------------------------
(* Proposals of one round, from the propose_viewpoint tool and from the    *)
(* review text, up to their admission by parallel_review_node              *)
(* (shared/tools.py, shared/debate.py:959-983, workflow/nodes.py:260-289).  *)
(* A proposal's content is the sequence of its characters.                 *)

IsSpace(c) == c = " "

\* str.strip()
RECURSIVE lstrip(_)
lstrip(text) ==
    IF text # <<>> /\ IsSpace(Head(text)) THEN lstrip(Tail(text)) ELSE text

RECURSIVE rstrip(_)
rstrip(text) ==
    IF text # <<>> /\ IsSpace(text[Len(text)])
    THEN rstrip(SubSeq(text, 1, Len(text) - 1)) ELSE text

strip(text) == rstrip(lstrip(text))

\* the module globals of shared/tools.py after cleanup_tool_context()
cleanup_tool_context ==
    [op |-> "tools", viewpoints_from_tool |-> <<>>, role_viewpoint_counts |-> <<>>,
     current_role_for_tool |-> None, calls |-> 0]

\* _role_viewpoint_counts.get(role_name, 0); the dict is a sequence of pairs
CountOf(counts, role_name) ==
    IF \E i \in 1..Len(counts) : counts[i].key = role_name
    THEN counts[CHOOSE i \in 1..Len(counts) : counts[i].key = role_name].value
    ELSE 0

\* shared/tools.py:376-443; the returned string and the globals after the call
propose_viewpoint(ctx, content, evidence, stance) ==
    LET SetCount(counts, role_name, n) ==
            IF \E i \in 1..Len(counts) : counts[i].key = role_name
            THEN [i \in 1..Len(counts) |->
                    IF counts[i].key = role_name THEN [key |-> role_name, value |-> n] ELSE counts[i]]
            ELSE Append(counts, [key |-> role_name, value |-> n])
    IN
    LET role_name == IF ctx.current_role_for_tool = None THEN "unknown"
                     ELSE ctx.current_role_for_tool
    IN IF content = <<>>
       THEN [message |-> "error: content must be a string", ctx |-> ctx]
       ELSE IF Len(strip(content)) < 5
       THEN [message |-> "error: content too short", ctx |-> ctx]
       ELSE IF CountOf(ctx.role_viewpoint_counts, role_name) >= 1
       THEN [message |-> "error: one new viewpoint per role per round", ctx |-> ctx]
       ELSE IF stance \notin Stances
       THEN [message |-> "stance must be one of the three stances", ctx |-> ctx]
       ELSE IF Len(evidence) = 0
       THEN [message |-> "evidence must be a list", ctx |-> ctx]
       ELSE [message |-> "viewpoint added to the pool",
             ctx |-> [ctx EXCEPT
                        !.viewpoints_from_tool = @ \o
                            <<[content |-> content, evidence |-> SubSeq(evidence, 1,
                                   IF Len(evidence) < 3 THEN Len(evidence) ELSE 3),
                               stance |-> stance, proposer |-> role_name]>>,
                        !.role_viewpoint_counts = SetCount(@, role_name,
                            CountOf(ctx.role_viewpoint_counts, role_name) + 1)]]

\* get_viewpoints_from_tool(), tools.py:55-63
get_viewpoints_from_tool(ctx) ==
    IF ctx.current_role_for_tool # None
    THEN SelectSeq(ctx.viewpoints_from_tool,
                   LAMBDA vp : vp.proposer = ctx.current_role_for_tool)
    ELSE ctx.viewpoints_from_tool

\* debate.py:963-975: the parsed viewpoints, then the tool's viewpoints whose
\* content the list does not hold yet
RECURSIVE MergeToolViewpoints(_, _, _)
MergeToolViewpoints(new_viewpoints, tool_viewpoints, k) ==
    IF k > Len(tool_viewpoints) THEN new_viewpoints
    ELSE LET vp == tool_viewpoints[k]
             dup == \E i \in 1..Len(new_viewpoints) : new_viewpoints[i].content = vp.content
         IN MergeToolViewpoints(
                IF dup THEN new_viewpoints
                ELSE Append(new_viewpoints, [content |-> vp.content, evidence |-> vp.evidence]),
                tool_viewpoints, k + 1)

Chars5 == <<"r", "i", "s", "k", "y">>
Chars2 == <<"n", "o">>
\* arguments the model passes to propose_viewpoint
ProposeArguments ==
    LET CharsPadded == <<" ", "n", "o", " ", " ", " ">>
    IN
    LET CharsSpaced == <<"a", " ", " ", " ", "b">>
    IN
    {[content |-> c, evidence |-> <<"evidence">>, stance |-> "FOR"] :
        c \in {Chars5, Chars2, CharsSpaced, CharsPadded}} \cup
    {[content |-> Chars5, evidence |-> <<>>, stance |-> "FOR"],
     [content |-> Chars5, evidence |-> <<"evidence">>, stance |-> "perhaps"]}

\* results of parse_viewpoints (debate.py:418-497): the content group matches
\* one or more characters other than quotes and is stripped, the evidence
\* group one or more characters other than a closing bracket
ParsedViewpoints ==
    {<<>>,
     <<[content |-> Chars5, evidence |-> <<"evidence">>]>>,
     <<[content |-> Chars2, evidence |-> <<"evidence">>]>>,
     <<[content |-> Chars5, evidence |-> <<"evidence">>],
       [content |-> <<"l", "a", "t", "e", "r">>, evidence |-> <<"evidence">>]>>}

\* a pool of n valid viewpoints left by earlier rounds
RECURSIVE SeededState(_)
SeededState(n) ==
    IF n = 0 THEN create_initial_state("rfc", DEFAULT_MAX_ROUNDS)
    ELSE add_viewpoint_to_pool(SeededState(n - 1),
             create_viewpoint(n, <<"s", "e", "e", "d", "s">>, <<"evidence">>,
                              Roles[((n - 1) % NumRoles) + 1], 1)).state

\* the agent of the role under review calls propose_viewpoint
ToolPropose ==
    /\ active = {"tool_session"}
    /\ Len(review_results) < NumRoles
    /\ input.calls < MaxToolCalls
    /\ \E a \in ProposeArguments :
         LET r == propose_viewpoint(input, a.content, a.evidence, a.stance) IN
           /\ input' = [r.ctx EXCEPT !.calls = input.calls + 1]
           /\ output' = [op |-> "propose_viewpoint", arguments |-> a, message |-> r.message,
                         role |-> Roles[Len(review_results) + 1],
                         proposed_before |-> Len(input.viewpoints_from_tool)]
    /\ UNCHANGED <<state, active, review_results, steps, graph, graph_error, next_id,
                   saved, restored>>

\* run_review_with_tools returns (debate.py:959-983); the node stores the
\* result and cleans the tool context for the next role (nodes.py:159, 215)
ToolReviewReturns ==
    /\ active = {"tool_session"}
    /\ Len(review_results) < NumRoles
    /\ \E parsed \in ParsedViewpoints :
         review_results' = Append(review_results,
             [role |-> Roles[Len(review_results) + 1], content |-> "review", vote |-> "FOR",
              new_viewpoints |-> MergeToolViewpoints(parsed, get_viewpoints_from_tool(input), 1),
              tool_calls |-> <<>>])
    /\ input' = cleanup_tool_context
    /\ output' = Idle
    /\ UNCHANGED <<state, active, steps, graph, graph_error, next_id, saved, restored>>

\* nodes.py:245-360 after the last role
ToolRoundFinish ==
    /\ active = {"tool_session"}
    /\ Len(review_results) = NumRoles
    /\ LET returned == parallel_review_node(state, review_results, next_id, steps + 1) IN
         /\ output' = [op |-> "parallel_review_node", argument |-> state,
                       review_results |-> review_results, returned |-> returned]
         /\ state' = returned
         /\ next_id' = next_id + (Len(returned.viewpoint_pool) - Len(state.viewpoint_pool))
    /\ active' = {}
    /\ steps' = steps + 1
    /\ UNCHANGED <<review_results, graph, graph_error, input, saved, restored>>

InitTools ==
    /\ \E n \in 0..VIEWPOINT_POOL_LIMIT : state = SeededState(n)
    /\ active = {"tool_session"}
    /\ review_results = <<>>
    /\ steps = 0
    /\ graph = "none"
    /\ graph_error = "none"
    /\ next_id = Len(state.viewpoint_pool) + 1
    /\ input = cleanup_tool_context
    /\ output = Idle
    /\ saved = Idle
    /\ restored = Idle

NextTools ==
    \/ ToolPropose
    \/ ToolReviewReturns
    \/ ToolRoundFinish

SpecTools == InitTools /\ [][NextTools]_vars

----------------------------------------------------------------------------
(* The multi-round debate loops: _multi_round_debate of the nightly         *)
(* creative mode and run_workflow of the CLI.  input holds the loop's       *)
(* arguments, steps its round counter, review_results the tally of every    *)
(* round run so far (debate_history) and output what the loop reports.      *)

\* variant of DebateRound that leaves the loop only on approval
DebateRound_mut ==
    /\ active = {input.loop} /\ output = Idle
    /\ steps < input.max_rounds
    /\ \E votes \in [1..NumRoles -> Stances \cup {None}] :
         LET current_round == steps + 1
             results == [i \in 1..NumRoles |-> [role |-> Roles[i], vote |-> votes[i]]]
             vote_result == analyze_votes(results)
             approval == check_approval(vote_result, input.max_rounds, current_round,
                                        input.yes_votes_needed, input.no_votes_limit,
                                        input.require_yes_over_no)
         IN /\ steps' = current_round
            /\ review_results' = Append(review_results,
                   [round |-> current_round, yes |-> vote_result.yes,
                    no |-> vote_result.no, abstain |-> vote_result.abstain])
            /\ IF approval.approved
               THEN /\ output' = [op |-> input.loop, approved |-> approval.approved,
                                  rounds |-> current_round]
                    /\ active' = {}
               ELSE UNCHANGED <<output, active>>
    /\ UNCHANGED <<state, graph, graph_error, next_id, input, saved, restored>>

\* creative.py:114-149 and cli/main.py:212-238: one pass of the loop body
DebateRound ==
    /\ active = {input.loop} /\ output = Idle
    /\ steps < input.max_rounds
    /\ \E votes \in [1..NumRoles -> Stances \cup {None}] :
         LET current_round == steps + 1
             results == [i \in 1..NumRoles |-> [role |-> Roles[i], vote |-> votes[i]]]
             vote_result == analyze_votes(results)
             approval == check_approval(vote_result, input.max_rounds, current_round,
                                        input.yes_votes_needed, input.no_votes_limit,
                                        input.require_yes_over_no)
         IN /\ steps' = current_round
            /\ review_results' = Append(review_results,
                   [round |-> current_round, yes |-> vote_result.yes,
                    no |-> vote_result.no, abstain |-> vote_result.abstain])
            /\ IF input.loop = "_multi_round_debate"
               THEN \* if approval["approved"]: break / if approval["finished"]: break
                    IF approval.approved
                    THEN /\ output' = [op |-> input.loop, approved |-> TRUE,
                                       rounds |-> current_round]
                         /\ active' = {}
                    ELSE IF approval.finished
                    THEN /\ output' = [op |-> input.loop, approved |-> FALSE,
                                       rounds |-> current_round]
                         /\ active' = {}
                    ELSE UNCHANGED <<output, active>>
               ELSE \* if check_result["finished"]: show_final_report(...); return
                    IF approval.finished
                    THEN /\ output' = [op |-> input.loop, approved |-> approval.approved,
                                       rounds |-> current_round]
                         /\ active' = {}
                    ELSE UNCHANGED <<output, active>>
    /\ UNCHANGED <<state, graph, graph_error, next_id, input, saved, restored>>

\* creative.py:114 and 151-156, cli/main.py:212 and 243-244: the loop
\* condition fails and the code after the loop reports
DebateExhausted ==
    /\ active = {input.loop} /\ output = Idle
    /\ ~(steps < input.max_rounds)
    /\ output' = [op |-> input.loop, approved |-> FALSE, rounds |-> steps]
    /\ active' = {}
    /\ UNCHANGED <<state, review_results, steps, graph, graph_error, next_id, input,
                   saved, restored>>

InitDebate ==
    /\ state = create_initial_state("rfc", DEFAULT_MAX_ROUNDS)
    /\ \E loop \in {"_multi_round_debate", "run_workflow"}, max_rounds \in 0..MaxRoundsCfg,
          yes_votes_needed \in 1..NumRoles, no_votes_limit \in 1..NumRoles,
          require_yes_over_no \in BOOLEAN :
          \* run_workflow leaves require_yes_over_no at its default
          /\ loop = "run_workflow" => require_yes_over_no
          /\ input = [loop |-> loop, max_rounds |-> max_rounds,
                      yes_votes_needed |-> yes_votes_needed,
                      no_votes_limit |-> no_votes_limit,
                      require_yes_over_no |-> require_yes_over_no]
          /\ active = {loop}
    /\ review_results = <<>>
    /\ steps = 0
    /\ graph = "none"
    /\ graph_error = "none"
    /\ next_id = 1
    /\ output = Idle
    /\ saved = Idle
    /\ restored = Idle

NextDebate ==
    \/ DebateRound
    \/ DebateExhausted

SpecDebate == InitDebate /\ [][NextDebate]_vars

----------------------------------------------------------------------------
(* A stop pressed in the UI while a round runs on the worker thread.        *)
(* _review_running_var is a ContextVar (nodes.py:50): each thread reads and *)
(* writes the value of its own context. input holds the value in the UI     *)
(* thread's context, the value in the worker's context, which run_review    *)
(* set to True when the worker started (textual_app.py:365), the app's own  *)
(* attribute _review_running, and the number of roles that had completed    *)
(* when the stop was pressed.                                               *)

\* textual_app.py:309-324, on the UI thread
on_stop_review ==
    /\ active = {"parallel_review_node"} /\ output = Idle
    /\ input.app_review_running
    /\ Len(review_results) < NumRoles
    /\ input' = [input EXCEPT !.app_review_running = FALSE,
                              !.ui_context = FALSE,
                              !.pressed_after = Len(review_results)]
    /\ UNCHANGED <<state, active, review_results, steps, graph, graph_error, next_id,
                   output, saved, restored>>

\* nodes.py:154-243, on the worker thread: the role in flight completes and
\* the node reads the flag of its own context
WorkerReviewRole ==
    /\ active = {"parallel_review_node"} /\ output = Idle
    /\ Len(review_results) < NumRoles
    /\ LET role == Roles[Len(review_results) + 1] IN
       \E result \in {FailedReview(role)} \cup RoundOutcomes(role, state.viewpoint_pool) :
          /\ review_results' = Append(review_results, result)
          /\ IF ~input.worker_context
             THEN /\ output' = [op |-> "parallel_review_node", stopped |-> TRUE,
                                review_results |-> review_results', returned |-> state]
                  /\ active' = {}
             ELSE UNCHANGED <<output, active>>
    /\ steps' = steps + 1
    /\ UNCHANGED <<state, graph, graph_error, next_id, input, saved, restored>>

\* nodes.py:245-360: every role has completed
WorkerRoundFinish ==
    /\ active = {"parallel_review_node"} /\ output = Idle
    /\ Len(review_results) = NumRoles
    /\ LET returned == parallel_review_node(state, review_results, next_id, steps + 1) IN
         /\ output' = [op |-> "parallel_review_node", stopped |-> FALSE,
                       review_results |-> review_results, returned |-> returned]
         /\ state' = returned
         /\ next_id' = next_id + (Len(returned.viewpoint_pool) - Len(state.viewpoint_pool))
    /\ active' = {}
    /\ steps' = steps + 1
    /\ UNCHANGED <<review_results, graph, graph_error, input, saved, restored>>

\* run_review has started the worker, which set the flag in its context
InitStop ==
    /\ \E seeded \in BOOLEAN :
          state = IF seeded
                  THEN add_viewpoint_to_pool(create_initial_state("rfc", DEFAULT_MAX_ROUNDS),
                           create_viewpoint(1, CandB.content, CandB.evidence, Roles[1], 1)).state
                  ELSE create_initial_state("rfc", DEFAULT_MAX_ROUNDS)
    /\ active = {"parallel_review_node"}
    /\ review_results = <<>>
    /\ steps = 0
    /\ graph = "none"
    /\ graph_error = "none"
    /\ next_id = Len(state.viewpoint_pool) + 1
    /\ input = [app_review_running |-> TRUE, ui_context |-> TRUE, worker_context |-> TRUE,
                pressed_after |-> 0]
    /\ output = Idle
    /\ saved = Idle
    /\ restored = Idle

NextStop ==
    \/ on_stop_review
    \/ WorkerReviewRole
    \/ WorkerRoundFinish

SpecStop == InitStop /\ [][NextStop]_vars

----------------------------------------------------------------------------
(* Responses to a pooled viewpoint and the resolver, applied in turn as    *)
(* the loop parallel_review -> viewpoint_pool_manager -> parallel_review   *)
(* applies them while the pool is not empty (workflow/graph.py:74-92).     *)

ResponseResults(pool) ==
    \* the results of one role's review as far as responses go
    LET ResponseOutcomes(role) ==
            {[role |-> role, content |-> "review", vote |-> None, new_viewpoints |-> <<>>,
              tool_calls |-> tc] : tc \in ToolCallLists(pool)}
    IN
    {results \in [1..NumRoles -> UNION {ResponseOutcomes(Roles[i]) : i \in 1..NumRoles}] :
        \A i \in 1..NumRoles : results[i].role = Roles[i]}

VotesReview ==
    /\ active = {"parallel_review"} /\ steps < MaxSteps
    /\ \E results \in ResponseResults(state.viewpoint_pool) :
          state' = parallel_review_node(state, results, next_id, steps + 1)
    /\ active' = {"viewpoint_pool_manager"}
    /\ steps' = steps + 1
    /\ UNCHANGED <<review_results, graph, graph_error, next_id, input, output, saved, restored>>

VotesResolve ==
    /\ active = {"viewpoint_pool_manager"} /\ steps < MaxSteps
    /\ state' = viewpoint_pool_manager_node(state, steps + 1)
    /\ active' = {"parallel_review"}
    /\ steps' = steps + 1
    /\ UNCHANGED <<review_results, graph, graph_error, next_id, input, output, saved, restored>>

\* the pool holds one viewpoint the first role proposed, not yet voted on
InitVotes ==
    /\ state = add_viewpoint_to_pool(create_initial_state("rfc", DEFAULT_MAX_ROUNDS),
                    create_viewpoint(1, CandB.content, CandB.evidence, Roles[1], 1)).state
    /\ active = {"parallel_review"}
    /\ review_results = <<>>
    /\ steps = 0
    /\ graph = "none"
    /\ graph_error = "none"
    /\ next_id = 2
    /\ input = Idle
    /\ output = Idle
    /\ saved = Idle
    /\ restored = Idle

NextVotes ==
    \/ VotesReview
    \/ VotesResolve

SpecVotes == InitVotes /\ [][NextVotes]_vars

----------------------------------------------------------------------------
(* Properties *)

C2_PoolCapacity ==
    active = {"pool"} =>
        /\ Len(state.viewpoint_pool) <= 3
        /\ can_add_viewpoint(state) <=> Len(state.viewpoint_pool) < 3
        /\ output # Idle =>
              /\ output.rejected <=> Len(output.before) >= 3
              /\ output.rejected => state.viewpoint_pool = output.before
              /\ output.raised = "ValueError" <=>
                    (output.rejected /\ output.op = "core.add_viewpoint_to_pool")

\* a full pool on which a further attempt has just been rejected
C2_Witness ==
    /\ active = {"pool"} /\ output # Idle
    /\ output.rejected /\ Len(state.viewpoint_pool) = 3

\* C3: for every round and every list of role results, the viewpoints
\* parallel_review_node adds to the pool have pairwise different proposers (so
\* no role adds more than one viewpoint created in that round, however many
\* candidates its result holds), carry the round as created_round, and each is
\* built from the first candidate of its proposer's result
\* (checked under SpecReview)
C3_OneProposalPerRole ==
    output.op = "parallel_review_node" =>
        LET pool == state.viewpoint_pool
            n == Len(output.before)
            added == SubSeq(pool, n + 1, Len(pool))
        IN /\ \A i, j \in 1..Len(added) :
                  added[i].proposer = added[j].proposer => i = j
           /\ \A i \in 1..Len(added) :
                  /\ added[i].created_round = output.round
                  /\ \E k \in 1..Len(output.results) :
                        /\ output.results[k].role = added[i].proposer
                        /\ output.results[k].new_viewpoints # <<>>
                        /\ added[i].content = output.results[k].new_viewpoints[1].content
                        /\ added[i].evidence = output.results[k].new_viewpoints[1].evidence

\* a role whose result held two candidates, reviewing a pool that already held
\* its proposal of an earlier round, has had exactly its first candidate added
C3_Witness ==
    /\ output.op = "parallel_review_node"
    /\ Len(output.results[1].new_viewpoints) = 2
    /\ Len(output.before) = 1 /\ output.before[1].created_round < output.round
    /\ Len(state.viewpoint_pool) > 1
    /\ state.viewpoint_pool[2].proposer = Roles[1]
    /\ state.viewpoint_pool[2].content = CandB.content
    /\ \A i \in 3..Len(state.viewpoint_pool) : state.viewpoint_pool[i].proposer # Roles[1]

C5_TerminateWins ==
    LET HasTerminate(s) == /\ "human_decision" \in s.keys
                           /\ s.human_decision # <<>>
                           /\ s.human_decision[1].action = "TERMINATE"
    IN
    (output.op = "route" /\ HasTerminate(input.s)) => output.result = "EMERGENCY_STOP"

\* TERMINATE together with no open issue, the last round and a pending human input
C5_Witness ==
    LET HasTerminate(s) == /\ "human_decision" \in s.keys
                           /\ s.human_decision # <<>>
                           /\ s.human_decision[1].action = "TERMINATE"
    IN
    /\ output.op = "route" /\ HasTerminate(input.s)
    /\ input.s.keys = RouterStateKeys
    /\ input.s.open_issues = <<>> /\ input.s.awaiting_human_input
    /\ input.s.current_round >= input.self.max_rounds
    /\ output.result = "EMERGENCY_STOP"

\* C6: without a TERMINATE decision route returns HUMAN_INTERVENTION if
\* awaiting_human_input, otherwise FINAL_REPORT if current_round >= max_rounds,
\* otherwise FINAL_REPORT if open_issues is empty, otherwise ROUND_SUMMARY; it
\* never returns CONTINUE (checked under SpecPure)
C6_RulesInOrder ==
    LET HasTerminate(s) == /\ "human_decision" \in s.keys
                           /\ s.human_decision # <<>>
                           /\ s.human_decision[1].action = "TERMINATE"
    IN
    output.op = "route" =>
        /\ output.result # "CONTINUE"
        /\ ~HasTerminate(input.s) =>
              output.result =
                 IF Get(input.s, "awaiting_human_input", FALSE) THEN "HUMAN_INTERVENTION"
                 ELSE IF Get(input.s, "current_round", 0) >= input.self.max_rounds
                      THEN "FINAL_REPORT"
                 ELSE IF Get(input.s, "open_issues", <<>>) = <<>> THEN "FINAL_REPORT"
                 ELSE "ROUND_SUMMARY"

\* C7: loading a saved state gives back the state that was saved, field for
\* field (checked under SpecSnapshot)
C7_RoundTrip == restored # Idle => restored.state = state

\* C8: check_approval approves iff yes >= yes_votes_needed and (not
\* require_yes_over_no or yes > no) (checked under SpecPure)
C8_ApprovedIffPass ==
    LET PassCondition ==
            /\ input.vote_result.yes >= input.yes_votes_needed
            /\ (~input.require_yes_over_no \/ input.vote_result.yes > input.vote_result.no)
    IN
    output.op = "check_approval" => (output.result.approved <=> PassCondition)

\* yes=2, no=1, yes_votes_needed=2, require_yes_over_no: approved
C8_Witness ==
    /\ output.op = "check_approval"
    /\ input.vote_result = [yes |-> 2, no |-> 1]
    /\ input.yes_votes_needed = 2 /\ input.require_yes_over_no
    /\ output.result.approved

C10_FinishAtMaxRounds ==
    LET PassCondition ==
            /\ input.vote_result.yes >= input.yes_votes_needed
            /\ (~input.require_yes_over_no \/ input.vote_result.yes > input.vote_result.no)
    IN
    (/\ output.op = "check_approval"
     /\ ~PassCondition
     /\ ~(input.vote_result.no >= input.no_votes_limit))
        => /\ ~output.result.approved
           /\ output.result.finished <=> input.current_round >= input.max_rounds

\* round 10 of 10 with yes=1, no=1: finished, not approved
C10_Witness ==
    /\ output.op = "check_approval"
    /\ input.vote_result = [yes |-> 1, no |-> 1]
    /\ input.yes_votes_needed = 2 /\ input.no_votes_limit = 2
    /\ input.current_round = 10 /\ input.max_rounds = 10
    /\ output.result.finished /\ ~output.result.approved

\* C11: analyze_votes and vote_analyzer_node tally only the reviews of the
\* current round that carry a stance (a review without one is left out, not
\* counted as an abstention), and needs_human is (against / total) > 0.3 when
\* total > 0, false otherwise: 2 against of 4 gives true, 1 against of 4 and no
\* vote at all give false (checked under SpecPure)
C11_DeadlockTally ==
    /\ output.op = "analyze_votes" =>
          LET N(v) == Cardinality({i \in 1..Len(input.results) : input.results[i].vote = v})
              total == N("FOR") + N("AGAINST") + N("ABSTAIN")
          IN /\ output.result.yes = N("FOR")
             /\ output.result.no = N("AGAINST")
             /\ output.result.abstain = N("ABSTAIN")
             /\ output.result.needs_human <=> (total > 0 /\ 10 * N("AGAINST") > 3 * total)
             /\ (total = 4 /\ N("AGAINST") = 2) => output.result.needs_human
             /\ (total = 4 /\ N("AGAINST") = 1) => ~output.result.needs_human
             /\ total = 0 => ~output.result.needs_human
    /\ output.op = "vote_analyzer_node" =>
          LET ev == input.s.events
              N(v) == Cardinality({i \in 1..Len(ev) :
                          /\ ev[i].event_type = "ROLE_REVIEW"
                          /\ ev[i].metadata.round = input.s.current_round
                          /\ ev[i].vote_result = v})
              total == N("FOR") + N("AGAINST") + N("ABSTAIN")
              needs == 10 * N("AGAINST") > 3 * total
              out == output.result
          IN IF total = 0
             THEN out = input.s
             ELSE /\ Len(out.events) = Len(ev) + 1
                  /\ SubSeq(out.events, 1, Len(ev)) = ev
                  /\ out.events[Len(ev) + 1].event_type = "ROUND_COMPLETE"
                  /\ out.events[Len(ev) + 1].metadata.vote_summary =
                        [FOR |-> N("FOR"), AGAINST |-> N("AGAINST"), ABSTAIN |-> N("ABSTAIN")]
                  /\ out.events[Len(ev) + 1].metadata.needs_human_intervention = needs
                  /\ out.awaiting_human_input = needs
                  /\ out.workflow_status = IF needs THEN "AWAITING_HUMAN" ELSE "DISCUSSING"

\* the node tallies 2 against of the round's 3 stances next to a review without
\* a stance and a review of the round before, and asks for the human
C11_Witness ==
    /\ output.op = "vote_analyzer_node"
    /\ Len(input.s.events) = 4
    /\ \E i \in 1..4 : input.s.events[i].vote_result = None
    /\ \E i \in 1..4 : input.s.events[i].metadata.round = 1
    /\ output.result.awaiting_human_input
    /\ output.result.events[5].metadata.vote_summary = [FOR |-> 0, AGAINST |-> 2, ABSTAIN |-> 0]

C13_AddEventFrame ==
    output.op = "add_event" =>
        /\ output.result.events = input.s.events \o <<input.event>>
        /\ DOMAIN output.result = DOMAIN input.s
        /\ \A f \in DOMAIN input.s \ {"events"} : output.result[f] = input.s[f]
        /\ output.argument_after.events = input.s.events
        /\ output.argument_after = input.s

\* an event was appended to a log of two events in a state whose other fields
\* are away from their defaults
C13_Witness ==
    /\ output.op = "add_event"
    /\ Len(input.s.events) = 2
    /\ Len(output.result.events) = 3
    /\ output.result.events[3].event_type = "CLARIFICATION"
    /\ input.s.rfc_modification_applied
    /\ input.s.human_decision # <<>>

\* C14: for every state and every n >= 0, get_latest_events(state, n) returns
\* the last min(n, len(events)) events in log order (the empty sequence for
\* n = 0) and does not modify the state (checked under SpecPure)
C14_LastEvents ==
    output.op = "get_latest_events" =>
        LET events == input.s.events
            n == input.count
            m == IF n < Len(events) THEN n ELSE Len(events)
        IN /\ output.result = SubSeq(events, Len(events) - m + 1, Len(events))
           /\ output.argument_after = input.s

\* C15: when a role's review call fails during a round the failure does not
\* propagate: every remaining role of the round is still called, and the
\* failed role is recorded as one ROLE_REVIEW event (one result record in
\* run_debate) carrying the error text and an abstain or null stance
\* (checked under SpecRound)
C15_FailureIsRecorded ==
    /\ (output.op = "parallel_review_node" /\ ~output.stopped) =>
          LET old == Len(output.argument.events)
              events == output.returned.events
          IN /\ Len(input.trace) = NumRoles
             /\ Len(events) = old + NumRoles
             /\ \A i \in 1..NumRoles :
                   /\ input.trace[i].role = Roles[i]
                   /\ Cardinality({j \in (old + 1)..Len(events) :
                                      events[j].actor = Roles[i]}) = 1
                   /\ input.trace[i].raised =>
                         /\ events[old + i].event_type = "ROLE_REVIEW"
                         /\ events[old + i].actor = Roles[i]
                         /\ events[old + i].content = "review failed"
                         /\ events[old + i].vote_result = "ABSTAIN"
    /\ output.op = "run_debate" =>
          /\ Len(input.trace) = NumRoles
          /\ Len(output.returned) = NumRoles
          /\ \A i \in 1..NumRoles :
                /\ input.trace[i].role = Roles[i]
                /\ output.returned[i].role = Roles[i]
                /\ input.trace[i].raised =>
                      /\ output.returned[i].content = "review failed"
                      /\ output.returned[i].vote = None

\* the first role's call failed, the second role was reviewed and the node
\* returned the round's events
C15_Witness ==
    /\ output.op = "parallel_review_node" /\ ~output.stopped
    /\ input.trace[1].raised
    /\ ~input.trace[NumRoles].raised
    /\ output.returned.events[Len(output.argument.events) + 1].content = "review failed"
    /\ output.returned.events[Len(output.returned.events)].vote_result = "AGAINST"

\* C16: when the stop flag is observed after role k of a round, the state
\* parallel_review_node checkpoints and returns holds the ROLE_REVIEW events,
\* the admitted viewpoints and the cast votes of roles 1..k of that round
\* (checked under SpecRound)
C16_StopKeepsHistory ==
    (output.op = "parallel_review_node" /\ output.stopped) =>
        LET s == output.argument
            results == output.review_results
            k == Len(results)
            old == Len(s.events)
            kept == parallel_review_node(s, results, Len(s.viewpoint_pool) + 1, steps)
            returned == output.returned
        IN /\ Len(returned.events) = old + k
           /\ \A i \in 1..k :
                 /\ returned.events[old + i].event_type = "ROLE_REVIEW"
                 /\ returned.events[old + i].actor = Roles[i]
                 /\ returned.events[old + i].vote_result = results[i].vote
           /\ returned.viewpoint_pool = kept.viewpoint_pool
           /\ saved # Idle =>
                 /\ Len(saved.state.events) = old + k
                 /\ Len(saved.state.viewpoint_pool) = Len(kept.viewpoint_pool)

\* C17: over every run of the workflow current_round never decreases, and the
\* only step that changes it is clerk_summary_node, which adds exactly 1
\* (checked under SpecRun)
C17_RoundOnlyBySummary ==
    [][\/ state'.current_round = state.current_round
       \/ /\ active = {"clerk_summary"}
          /\ state'.current_round = state.current_round + 1]_vars

\* a second summary has been written: the run is in its third round
C17_Witness ==
    /\ state.current_round = 3
    /\ active = {"parallel_review"}
    /\ graph_error = "none"

\* C18: every run of the compiled workflow started from create_initial_state,
\* with all external calls returning and no human action or stop request,
\* reaches final_report_node and workflow_status COMPLETED, at the latest once
\* current_round >= max_rounds: no round beyond max_rounds is ever opened
\* (checked under SpecUnattended)
C18_CompletedByMaxRounds ==
    state.current_round > state.max_rounds => state.workflow_status = "COMPLETED"

C20_TerminateHalts ==
    [][(/\ state.human_decision # <<>>
        /\ state.human_decision[1].action = "TERMINATE"
        /\ \/ active = {"vote_analyzer"}
           \/ active = {"viewpoint_pool_manager"}
           \/ active = {"human_oversight"})
       => active' \cap {"parallel_review", "viewpoint_pool_manager", "clerk_summary"} = {}]_vars

C23_SweepPartitions ==
    output.op = "resolve_active_viewpoints" =>
        LET s == input.s
            r == output.result
            Done(vp) == check_viewpoint_resolved(vp, reviewers_count)
            done == SelectSeq(s.viewpoint_pool, Done)
            old == Len(s.resolved_viewpoints)
        IN /\ r.viewpoint_pool = SelectSeq(s.viewpoint_pool, LAMBDA vp : ~Done(vp))
           /\ Len(r.resolved_viewpoints) = old + Len(done)
           /\ SubSeq(r.resolved_viewpoints, 1, old) = s.resolved_viewpoints
           /\ \A i \in 1..Len(done) :
                 LET vp == r.resolved_viewpoints[old + i] IN
                 /\ vp.status = "RESOLVED"
                 /\ vp.resolved_round = <<input.current_round>>
                 /\ vp.id = done[i].id
                 /\ vp.content = done[i].content
                 /\ vp.evidence = done[i].evidence
                 /\ vp.proposer = done[i].proposer
                 /\ vp.vote_count = done[i].vote_count
                 /\ vp.created_round = done[i].created_round
           /\ DOMAIN r = DOMAIN s
           /\ \A f \in DOMAIN s \ {"viewpoint_pool", "resolved_viewpoints"} : r[f] = s[f]

\* a pool of three with one entry resolved by votes between two that stay,
\* swept into a resolved list that already held an entry
C23_Witness ==
    /\ output.op = "resolve_active_viewpoints"
    /\ Len(input.s.viewpoint_pool) = 3
    /\ Len(input.s.resolved_viewpoints) = 1
    /\ Len(output.result.viewpoint_pool) = 2
    /\ output.result.viewpoint_pool[1].id = 1
    /\ output.result.viewpoint_pool[2].id = 3
    /\ output.result.resolved_viewpoints[2].id = 2
    /\ output.result.resolved_viewpoints[2].vote_count.FOR = reviewers_count - 1

\* C24: after viewpoint_pool_manager_node completes in the workflow graph,
\* each viewpoint ever admitted occurs exactly once in viewpoint_pool and
\* resolved_viewpoints together: in viewpoint_pool iff its status is ACTIVE,
\* otherwise in resolved_viewpoints with resolved_round set; no viewpoint is
\* deleted (checked under SpecRun)
C24_EachAdmittedOnce ==
    [][(active = {"viewpoint_pool_manager"} /\ steps' = steps + 1)
       => LET pool == state'.viewpoint_pool
              resolved == state'.resolved_viewpoints
              all == pool \o resolved
          IN /\ \A i, j \in 1..Len(all) : all[i].id = all[j].id => i = j
             /\ \A i \in 1..Len(pool) : pool[i].status = "ACTIVE"
             /\ \A i \in 1..Len(resolved) :
                   resolved[i].status # "ACTIVE" /\ resolved[i].resolved_round # <<>>
             /\ \A i \in 1..Len(state.viewpoint_pool) :
                   \E j \in 1..Len(all) : all[j].id = state.viewpoint_pool[i].id
             /\ \A i \in 1..Len(state.resolved_viewpoints) :
                   \E j \in 1..Len(all) : all[j].id = state.resolved_viewpoints[i].id]_vars

\* C25: the event log is append-only across the whole workflow: after each
\* node transition, state.events equals the events before the transition
\* followed by exactly the events that node created (they carry the time of
\* the transition); no existing event is duplicated, removed or reordered
\* (checked under SpecRun)
C25_EventLogAppendOnly ==
    [][steps' = steps + 1
       => LET before == state.events
              after == state'.events
          IN /\ Len(after) >= Len(before)
             /\ SubSeq(after, 1, Len(before)) = before
             /\ \A i \in Len(before) + 1..Len(after) : after[i].timestamp = steps']_vars

\* C26: in the event log of any run, the ROLE_REVIEW events of one round
\* appear in role-invocation order, and every event tagged with round N
\* precedes every event tagged with round N+1 (checked under SpecRun)
C26_EventOrder ==
    LET log == state.events
        RoleIndex(actor) == CHOOSE k \in 1..NumRoles : Roles[k] = actor
    IN /\ \A i, j \in 1..Len(log) :
             (/\ i < j
              /\ log[i].event_type = "ROLE_REVIEW" /\ log[j].event_type = "ROLE_REVIEW"
              /\ log[i].metadata.round = log[j].metadata.round)
                => RoleIndex(log[i].actor) < RoleIndex(log[j].actor)
       /\ \A i, j \in 1..Len(log) :
             log[j].metadata.round = log[i].metadata.round + 1 => i < j

C28_InterveneMatchesAnalyzer ==
    output.op = "should_human_intervene" =>
        (output.result <=> vote_analyzer_node(input.s, 2).awaiting_human_input)

\* C29: for every state whose current_round >= its own max_rounds, with no
\* TERMINATE decision and awaiting_human_input false, route_after_vote and
\* route_after_summary (both through default_router) yield final_report,
\* also when max_rounds is not the default and open_issues is non-empty
\* (checked under SpecPure)
C29_MaxRoundsEndsDiscussion ==
    (/\ output.op \in {"route_after_vote", "route_after_summary"}
     /\ input.s.current_round >= input.s.max_rounds
     /\ ~input.s.awaiting_human_input
     /\ \/ input.s.human_decision = <<>>
        \/ input.s.human_decision[1].action # "TERMINATE")
        => output.result = "final_report"

C32_StopEndsRound ==
    [][/\ (output = Idle /\ output'.op = "parallel_review_node" /\ output'.stopped)
          => /\ Len(review_results) >= 1
             /\ review_results' = review_results
             /\ output'.review_results = review_results
             /\ Len(Trace') = Len(review_results)
             /\ active' = {}
             /\ saved' # saved => saved'.save_reason = "manual_stop"
       /\ (output.op = "parallel_review_node" /\ output.stopped)
          => review_results' = review_results /\ input' = input]_vars

\* the stop is observed after the first role, before the last one is called,
\* and the checkpoint is written
C32_Witness ==
    /\ output.op = "parallel_review_node" /\ output.stopped
    /\ Len(review_results) = 1
    /\ Len(Trace) = 1
    /\ saved # Idle /\ saved.save_reason = "manual_stop"
    /\ active = {}

\* C35: if persisting the checkpoint fails when a stop is observed,
\* parallel_review_node still returns its in-memory state and raises
\* nothing (checked under SpecRound)
C35_FailedSaveIsNotFatal ==
    (output.op = "parallel_review_node" /\ output.stopped /\ ~output.save_ok)
        => /\ output.raised = "none"
           /\ output.returned = output.argument
           /\ output.returned = state
           /\ saved = Idle

\* the save fails after the first role's review and the node returns its state
C35_Witness ==
    /\ output.op = "parallel_review_node" /\ output.stopped /\ ~output.save_ok
    /\ Len(output.review_results) = 1
    /\ output.returned = state
    /\ saved = Idle

\* C33: when more roles propose viewpoints in a round than the pool has free
\* slots, the admitted viewpoints are those of the earliest proposing roles
\* in invocation order; later roles' proposals are not admitted and existing
\* pool entries are never displaced (checked under SpecReview)
C33_FirstWriterWins ==
    output.op = "parallel_review_node" =>
        LET pool == state.viewpoint_pool
            n == Len(output.before)
            added == SubSeq(pool, n + 1, Len(pool))
            free == IF n >= VIEWPOINT_POOL_LIMIT THEN 0 ELSE VIEWPOINT_POOL_LIMIT - n
            proposing == SelectSeq(output.results, LAMBDA r : r.new_viewpoints # <<>>)
            k == IF Len(proposing) < free THEN Len(proposing) ELSE free
        IN /\ Len(pool) >= n
           /\ SubSeq(pool, 1, n) = output.before
           /\ Len(added) = k
           /\ \A i \in 1..k :
                 /\ added[i].proposer = proposing[i].role
                 /\ added[i].content = proposing[i].new_viewpoints[1].content

\* one free slot and two proposing roles: the first role's viewpoint is in the
\* pool, the second role's is not
C33_Witness ==
    /\ output.op = "parallel_review_node"
    /\ Len(output.before) = VIEWPOINT_POOL_LIMIT - 1
    /\ output.results[1].new_viewpoints # <<>>
    /\ output.results[2].new_viewpoints # <<>>
    /\ Len(state.viewpoint_pool) = VIEWPOINT_POOL_LIMIT
    /\ state.viewpoint_pool[VIEWPOINT_POOL_LIMIT].proposer = Roles[1]
    /\ \A i \in 1..Len(state.viewpoint_pool) :
          ~(state.viewpoint_pool[i].proposer = Roles[2]
            /\ state.viewpoint_pool[i].created_round = output.round)

\* C34: if the summarizer call in clerk_summary_node fails, the node returns
\* a state: exactly one CLARIFICATION event with the error text and an error
\* marker is appended, current_round is not advanced, and every other state
\* field is unchanged (checked under SpecPure)
C34_FailedSummaryIsRecorded ==
    (output.op = "clerk_summary_node" /\ ~input.ok) =>
        LET s == input.s
            r == output.result
            n == Len(s.events)
        IN /\ Len(r.events) = n + 1
           /\ SubSeq(r.events, 1, n) = s.events
           /\ r.events[n + 1].event_type = "CLARIFICATION"
           /\ r.events[n + 1].actor = "clerk"
           /\ r.events[n + 1].content = "summary failed"
           /\ "error" \in DOMAIN r.events[n + 1].metadata
           /\ r.events[n + 1].metadata.error
           /\ r.events[n + 1].metadata.round = s.current_round
           /\ r.current_round = s.current_round
           /\ DOMAIN r = DOMAIN s
           /\ \A f \in DOMAIN s \ {"events"} : r[f] = s[f]

\* the call fails on a discussion whose log already holds events
C34_Witness ==
    /\ output.op = "clerk_summary_node" /\ ~input.ok
    /\ Len(input.s.events) >= 2
    /\ Len(output.result.events) = Len(input.s.events) + 1
    /\ output.result.events[Len(output.result.events)].metadata.error

C37_RouteIsTotal ==
    LET s == [keys |-> RouterStateKeys,
              human_decision |-> state.human_decision,
              awaiting_human_input |-> state.awaiting_human_input,
              current_round |-> state.current_round,
              open_issues |-> state.open_issues]
    IN route(default_router, s) \in
          {"EMERGENCY_STOP", "HUMAN_INTERVENTION", "FINAL_REPORT", "ROUND_SUMMARY", "CONTINUE"}

\* C38: a stop requested from the UI thread while a round is in flight on
\* the background worker is observed by parallel_review_node's check after
\* the in-flight role completes, so the round aborts there rather than
\* running the remaining roles (checked under SpecStop)
C38_StopIsObserved ==
    ~input.app_review_running =>
        /\ Len(review_results) <= input.pressed_after + 1
        /\ output.op = "parallel_review_node" => output.stopped

\* C39: a debate loop runs at most max_rounds rounds, stops at the first
\* round whose check_approval result is finished, and reports approved
\* only if that round's check_approval returned approved; check_approval
\* never returns approved without finished (checked under SpecDebate)
C39_DebateLoopBounded ==
    LET approval(i) == check_approval(review_results[i], input.max_rounds, review_results[i].round,
                                      input.yes_votes_needed, input.no_votes_limit,
                                      input.require_yes_over_no)
        rounds == Len(review_results)
    IN /\ rounds <= input.max_rounds
       /\ \A i \in 1..rounds : review_results[i].round = i
       /\ \A i \in 1..rounds : approval(i).approved => approval(i).finished
       /\ \A i \in 1..rounds : approval(i).finished => i = rounds /\ output # Idle
       /\ output # Idle =>
            /\ output.rounds = rounds
            /\ rounds > 0 => approval(rounds).finished
            /\ output.approved => rounds > 0 /\ approval(rounds).approved

\* a loop that went on after a round without a verdict and ended approved
C39_Witness ==
    /\ output # Idle /\ output.approved
    /\ Len(review_results) = MaxRoundsCfg
    /\ input.max_rounds = MaxRoundsCfg

\* C40: for every viewpoint in viewpoint_pool or resolved_viewpoints and
\* every stance in FOR, AGAINST, ABSTAIN, vote_count[stance] equals the
\* number of records in its arguments list with that stance; the counts
\* are non-negative and zero on creation (checked under SpecRun)
C40_VoteCountMatchesArguments ==
    LET Consistent(vp) ==
            \A stance \in Stances :
                /\ vp.vote_count[stance] >= 0
                /\ vp.vote_count[stance] =
                       Cardinality({i \in 1..Len(vp.arguments) : vp.arguments[i].stance = stance})
        created == create_viewpoint(next_id, CandA.content, CandA.evidence, Roles[1], state.current_round)
    IN /\ \A i \in 1..Len(state.viewpoint_pool) : Consistent(state.viewpoint_pool[i])
       /\ \A i \in 1..Len(state.resolved_viewpoints) : Consistent(state.resolved_viewpoints[i])
       /\ created.vote_count = ZeroVotes /\ created.arguments = <<>>

\* a viewpoint that one role voted against and another answered with a
\* stance outside the three
C40_Witness ==
    \E i \in 1..Len(state.viewpoint_pool) :
        LET vp == state.viewpoint_pool[i] IN
          /\ vp.vote_count["AGAINST"] > 0
          /\ \E k \in 1..Len(vp.arguments) : vp.arguments[k].stance \notin Stances

====
